---------------------------- MODULE Spec2Model ----------------------------
(***************************************************************************)
(* A model of spotitui: the session controller of src/src/app.rs (App: the *)
(* event loop App::run, the key dispatch App::handle_key_event, the        *)
(* debounced search App::check_pending_search) over the token store and    *)
(* the remote calls of src/src/spotify.rs (SpotifyClient).                 *)
(*                                                                         *)
(* Rust's Option<T> is a sequence of length <= 1, Vec<T> a sequence read   *)
(* with 0-based indices through At, Result<T> a record [ok, val, err].     *)
(* Instants are kept as the time elapsed since they were taken.            *)
(***************************************************************************)
EXTENDS Integers, Sequences, FiniteSets, TLC

(***************************************************************************)
(* Bounds of the model.                                                    *)
(***************************************************************************)
\* user playlists the service returns besides "Liked Songs"
MaxUserPlaylists == 2
\* tracks in a playlist
MaxTracks == 2
\* tracks in a search response
MaxResults == 2
\* characters held by the search box
MaxQueryLen == 2
\* parameters of a redirect's query
MaxParams == 2
\* connections made to the redirect listener in one authorization attempt
MaxConnections == 2
\* tasks that call the methods of one SpotifyClient concurrently
MaxTasks == 2

(***************************************************************************)
(* Program constants.                                                      *)
(***************************************************************************)
search_debounce_ms == 500
PollSecs == 2
RefreshSecs == 600
EventPollMs == 50
PlaybackMenuLast == 3

(***************************************************************************)
(* Option, Vec, Result.                                                    *)
(***************************************************************************)
None == <<>>
Some(x) == <<x>>
IsSome(o) == o /= <<>>
Unwrap(o) == o[1]
UnwrapOr(o, d) == IF o = <<>> THEN d ELSE o[1]
At(v, i) == v[i + 1]
IsEmpty(v) == Len(v) = 0
Pop(v) == IF Len(v) = 0 THEN v ELSE SubSeq(v, 1, Len(v) - 1)

Ok(v) == [ok |-> TRUE, val |-> v, err |-> ""]
Err(m) == [ok |-> FALSE, val |-> <<>>, err |-> m]

\* one remote call, as the service sees it
Call(op, arg) == [op |-> op, arg |-> arg]


VARIABLES
    app,            \* the App struct (app.rs:29-49)
    client,         \* the SpotifyClient's token store (spotify.rs:151-156)
    pc,             \* where App::run stands
    last_update,    \* run's local: time elapsed since last_update was taken
    last_refreshed, \* run's local: time elapsed since last_refreshed was taken
    key,            \* the key event the input step just handled (None: none)
    calls,          \* the remote calls the last step issued, in order
    searches,       \* search_tracks calls issued since the query was last edited
    auth,           \* what the redirect listener of the authorization attempt met and did
    tasks,          \* the tasks that call the shared SpotifyClient, each where it stands
    locks           \* the holder of each of the client's two tokio Mutexes (None: free)

vars == <<app, client, pc, last_update, last_refreshed, key, calls, searches, auth,
          tasks, locks>>

(***************************************************************************)
(* The remote service. A response is [kind, code, body]:                   *)
(*   "neterr"     the request could not be sent or no response came        *)
(*   "status"     a response with a non-2xx status, in code                *)
(*   "malformed"  a 2xx response whose body does not deserialize           *)
(*   "ok"         a 2xx response with body                                 *)
(***************************************************************************)
Resp(kind, code, body) == [kind |-> kind, code |-> code, body |-> body]
NetErr == Resp("neterr", 0, <<>>)
Status(code) == Resp("status", code, <<>>)
Malformed == Resp("malformed", 200, <<>>)
Good(body) == Resp("ok", 200, body)

UserPlaylistIds == <<"A", "B", "C", "D">>
TrackUris == <<"t1", "t2", "t3", "t4">>
ResultUris == <<"r1", "r2", "r3", "r4">>
Prefix(v, n) == SubSeq(v, 1, n)

PlaylistBodies == {Prefix(UserPlaylistIds, n) : n \in 0..MaxUserPlaylists}
TrackBodies == {Prefix(TrackUris, n) : n \in 0..MaxTracks}
ResultBodies == {Prefix(ResultUris, n) : n \in 0..MaxResults}

\* CurrentlyPlaying, reduced to is_playing
PlayingBodies == {[is_playing |-> b] : b \in BOOLEAN}
\* Queue, reduced to the uris queued
QueueBodies == {[queue |-> Prefix(TrackUris, n)] : n \in 0..1}

(***************************************************************************)
(* SpotifyClient (spotify.rs). Every API method first reads the access     *)
(* token and fails with "Not authenticated" when there is none.            *)
(***************************************************************************)
Authenticated(c) == IsSome(c.access_token)

get_playlists(c, r) ==
    IF ~Authenticated(c) THEN Err("Not authenticated")
    ELSE IF r.kind = "ok" THEN Ok(<<"liked">> \o r.body)
    ELSE Err("get_playlists")

get_playlist_tracks(c, r) ==
    IF ~Authenticated(c) THEN Err("Not authenticated")
    ELSE IF r.kind = "ok" THEN Ok(r.body)
    ELSE Err("get_playlist_tracks")

search_tracks(c, r) ==
    IF ~Authenticated(c) THEN Err("Not authenticated")
    ELSE IF r.kind = "ok" THEN Ok(r.body)
    ELSE Err("search_tracks")

\* the status arm shared by play_track, add_to_queue, pause, resume, next, previous
CommandResult(c, r, what) ==
    IF ~Authenticated(c) THEN Err("Not authenticated")
    ELSE CASE r.kind = "ok" -> Ok(<<>>)
           [] r.kind = "malformed" -> Ok(<<>>)
           [] r.kind = "neterr" -> Err(what)
           [] r.kind = "status" /\ r.code = 404 -> Err("No active device found")
           [] r.kind = "status" /\ r.code = 403 -> Err("Spotify Premium is required")
           [] OTHER -> Err(what)

\* play_track asks for the devices first: dev is get_available_devices' response,
\* its body the number of devices
play_track(c, dev, r) ==
    IF ~Authenticated(c) THEN Err("Not authenticated")
    ELSE IF dev.kind \in {"neterr", "malformed"} THEN Err("devices")
    ELSE IF dev.kind = "status" \/ dev.body = <<>> THEN Err("No active Spotify devices found")
    ELSE CommandResult(c, r, "Failed to play track")

add_to_queue(c, r) == CommandResult(c, r, "Failed to add to queue")
pause_playback(c, r) == CommandResult(c, r, "Failed to pause playback")
resume_playback(c, r) == CommandResult(c, r, "Failed to resume playback")
next_track(c, r) == CommandResult(c, r, "Failed to skip to next track")
previous_track(c, r) == CommandResult(c, r, "Failed to skip to previous track")

\* Ok(None) for an empty body and for every non-2xx status
get_currently_playing(c, r) ==
    IF ~Authenticated(c) THEN Err("Not authenticated")
    ELSE CASE r.kind = "neterr" -> Err("get_currently_playing")
           [] r.kind = "malformed" -> Err("get_currently_playing")
           [] r.kind = "status" -> Ok(None)
           [] OTHER -> IF r.body = <<>> THEN Ok(None) ELSE Ok(Some(r.body[1]))

\* Ok(None) for every non-2xx status
get_queue(c, r) ==
    IF ~Authenticated(c) THEN Err("Not authenticated")
    ELSE CASE r.kind = "neterr" -> Err("get_queue")
           [] r.kind = "malformed" -> Err("get_queue")
           [] r.kind = "status" -> Ok(None)
           [] OTHER -> Ok(Some(r.body[1]))

(***************************************************************************)
(* The token store. A token response body is [access_token, refresh_token], *)
(* the refresh token optional (TokenResponse, TokenRefreshResponse).       *)
(***************************************************************************)
TokenBody(at, rt) == [access_token |-> at, refresh_token |-> rt]

\* SpotifyClient::new
NewClient == [access_token |-> None, refresh_token |-> None]

\* refresh_access_token that clears the access token when the refresh fails
refresh_access_token_forgets(c, r) ==
    IF c.refresh_token = None
    THEN [client |-> c, panic |-> TRUE, ret |-> Err("unwrap on None")]
    ELSE IF r.kind /= "ok"
    THEN [client |-> [c EXCEPT !.access_token = None], panic |-> FALSE,
          ret |-> Err("Token refresh failed")]
    ELSE [client |-> [access_token |-> Some(r.body.access_token),
                      refresh_token |-> r.body.refresh_token],
          panic |-> FALSE, ret |-> Ok(<<>>)]

\* SpotifyClient::refresh_access_token: [client, ret], ret a Result or "panic"
\* (the unwrap of an absent refresh token)
refresh_access_token(c, r) ==
    IF c.refresh_token = None
    THEN [client |-> c, panic |-> TRUE, ret |-> Err("unwrap on None")]
    ELSE CASE r.kind = "neterr" ->
                [client |-> c, panic |-> FALSE,
                 ret |-> Err("Failed to send token refresh request")]
           [] r.kind = "status" ->
                [client |-> c, panic |-> FALSE, ret |-> Err("Token refresh failed with status")]
           [] r.kind = "malformed" ->
                [client |-> c, panic |-> FALSE,
                 ret |-> Err("Failed to deserialize token response")]
           [] OTHER ->
                [client |-> [access_token |-> Some(r.body.access_token),
                             refresh_token |-> r.body.refresh_token],
                 panic |-> FALSE, ret |-> Ok(<<>>)]

(***************************************************************************)
(* The redirect listener. A request is the text read from a connection, as *)
(* a sequence of pieces: the two patterns the listener looks for, " ",     *)
(* "&", "=", "#", and pieces without any of these. A string taken out of a *)
(* request (a key, a value) is the sequence of its pieces.                 *)
(***************************************************************************)
Patterns == <<"GET /callback?", "GET /?">>

\* str::find: the index of the first t in v, 0 for None
Find(v, t) ==
    IF \E i \in 1..Len(v) : v[i] = t
    THEN CHOOSE i \in 1..Len(v) : v[i] = t /\ \A j \in 1..(i - 1) : v[j] /= t
    ELSE 0

\* the percent-encoding of a query value by the sender, and the decoding of a
\* piece by Url::query_pairs
Encode(piece) == CASE piece = "A/1" -> "A%2F1" [] piece = "a b" -> "a+b" [] OTHER -> piece
Decode(piece) == CASE piece = "A%2F1" -> "A/1" [] piece = "a+b" -> "a b" [] OTHER -> piece
DecodeAll(v) == [i \in 1..Len(v) |-> Decode(v[i])]

\* &v[..i - 1] and &v[i + 1..] around the piece found at i; all of v and nothing
\* when none was found
Before(v, i) == IF i = 0 THEN v ELSE SubSeq(v, 1, i - 1)
After(v, i) == IF i = 0 THEN <<>> ELSE SubSeq(v, i + 1, Len(v))

\* the query of a parsed URL ends where a fragment begins
WithoutFragment(query) == Before(query, Find(query, "#"))

\* one part of a query as a (key, value) pair: split at its first "=", at eq,
\* both sides decoded
PairAt(part, eq) == <<DecodeAll(Before(part, eq)), DecodeAll(After(part, eq))>>
Pair(part) == PairAt(part, Find(part, "="))

\* Url::query_pairs: the (key, value) pairs of a query, split at "&"; empty
\* parts are skipped
RECURSIVE query_pairs(_)
PairThen(part, rest) ==
    IF part = <<>> THEN query_pairs(rest) ELSE <<Pair(part)>> \o query_pairs(rest)
SplitAt(query, amp) == PairThen(Before(query, amp), After(query, amp))
query_pairs(query) == IF query = <<>> THEN <<>> ELSE SplitAt(query, Find(query, "&"))

\* FirstCode that takes the value of the first parameter, whatever its key
FirstValue(pairs) ==
    IF pairs = <<>> THEN None ELSE Some(pairs[1][2])

\* `for (key, value) in parsed_url.query_pairs() { if key == "code" { return Some(value) } }`
RECURSIVE FirstCode(_)
FirstCode(pairs) ==
    IF pairs = <<>> THEN None
    ELSE IF pairs[1][1] = <<"code">> THEN Some(pairs[1][2])
    ELSE FirstCode(Tail(pairs))

\* the body of extract_code_from_request's loop, for one pattern: query_part is
\* the request after the pattern, query_end the place of its first " "
QueryUpTo(query_part, query_end) ==
    IF query_end = 0 THEN None
    ELSE FirstCode(query_pairs(WithoutFragment(Before(query_part, query_end))))
QueryFrom(request, query_start) ==
    IF query_start = 0 THEN None
    ELSE QueryUpTo(After(request, query_start), Find(After(request, query_start), " "))
CodeAfter(request, pattern) == QueryFrom(request, Find(request, pattern))

\* the first of two Options that is Some
OrElse(a, b) == IF IsSome(a) THEN a ELSE b

\* SpotifyClient::extract_code_from_request
extract_code_from_request(request) ==
    OrElse(CodeAfter(request, Patterns[1]), CodeAfter(request, Patterns[2]))

\* A connection to the listener: what its peer does. "callback": it sends the
\* request line of a redirect, pattern followed by the parameters params, each
\* <<key, value>>; "raw": it sends the text request; "closed": it closes
\* without sending; "silent": it sends nothing and stays open; "accept_err":
\* accept fails.
Conn(kind, pattern, params, request) ==
    [kind |-> kind, pattern |-> pattern, params |-> params, request |-> request]
Callback(pattern, params) == Conn("callback", pattern, params, <<>>)
Raw(request) == Conn("raw", "", <<>>, request)
Closed == Conn("closed", "", <<>>, <<>>)
Silent == Conn("silent", "", <<>>, <<>>)
AcceptErr == Conn("accept_err", "", <<>>, <<>>)

\* key=value&key=value as the sender writes it
RECURSIVE QueryOf(_)
QueryOf(params) ==
    IF params = <<>> THEN <<>>
    ELSE <<params[1][1], "=", Encode(params[1][2])>>
         \o (IF Len(params) > 1 THEN <<"&">> \o QueryOf(Tail(params)) ELSE <<>>)

\* what try_read gives for a connection that can be read
RequestOf(cn) ==
    IF cn.kind = "callback" THEN <<cn.pattern>> \o QueryOf(cn.params) \o <<" ", "HTTP/1.1">>
    ELSE cn.request

\* SpotifyClient::start_callback_server run under the 60 s timeout, from its
\* i-th connection on: conns are the connections that arrive within the 60 s, in
\* order, sent what was written to each of those taken so far ("200" or "none"),
\* write_ok whether try_write succeeds. [cause, code, sent].
RECURSIVE Serve(_, _, _, _)
\* the connection conns[i] of kind kind, in whose request extract_code_from_request
\* finds code
Accepted(conns, i, sent, write_ok, kind, code) ==
    IF kind = "accept_err" THEN Serve(conns, i + 1, Append(sent, "none"), write_ok)
    ELSE IF kind = "silent"
    THEN \* stream.readable().await does not return
         [cause |-> "timeout", code |-> None, sent |-> Append(sent, "none")]
    ELSE IF code = None THEN Serve(conns, i + 1, Append(sent, "none"), write_ok)
    ELSE IF write_ok THEN [cause |-> "code", code |-> code, sent |-> Append(sent, "200")]
    ELSE [cause |-> "write_err", code |-> None, sent |-> Append(sent, "none")]
Serve(conns, i, sent, write_ok) ==
    IF i > Len(conns) THEN [cause |-> "timeout", code |-> None, sent |-> sent]
    ELSE Accepted(conns, i, sent, write_ok, conns[i].kind,
                  extract_code_from_request(RequestOf(conns[i])))

\* What surrounds one authorization attempt: whether the browser opens,
\* whether the listener's port can be bound, the connections made to the
\* listener within 60 s, and whether the response can be written.
Attempt(browser, bind, conns, write_ok) ==
    [browser |-> browser, bind |-> bind, conns |-> conns, write_ok |-> write_ok]

\* SpotifyClient::start_callback_server_with_timeout
start_callback_server_with_timeout(cb) ==
    IF ~cb.bind THEN [cause |-> "bind_err", code |-> None, sent |-> <<>>]
    ELSE Serve(cb.conns, 1, <<>>, cb.write_ok)

\* SpotifyClient::exchange_code_for_token
exchange_code_for_token(r) ==
    CASE r.kind = "ok" -> Ok(r.body)
      [] r.kind = "neterr" -> Err("error sending request")
      [] OTHER -> Err("error decoding response body")

\* authenticate that goes on to the token exchange whatever the listener returns
authenticate_anyway(c, cb, r) ==
    IF ~exchange_code_for_token(r).ok
    THEN [client |-> c, ret |-> exchange_code_for_token(r),
          served |-> start_callback_server_with_timeout(cb)]
    ELSE [client |-> [access_token |-> Some(r.body.access_token),
                      refresh_token |-> r.body.refresh_token],
          ret |-> Ok(<<>>), served |-> start_callback_server_with_timeout(cb)]

\* SpotifyClient::authenticate in the attempt cb; r is the token endpoint's
\* response to the exchange. served is what the listener did.
authenticate(c, cb, r) ==
    LET served == start_callback_server_with_timeout(cb)
        token == exchange_code_for_token(r)
    IN  IF ~cb.browser
        THEN [client |-> c, ret |-> Err("browser"),
              served |-> [cause |-> "browser_err", code |-> None, sent |-> <<>>]]
        ELSE IF served.cause /= "code"
        THEN [client |-> c, served |-> served,
              ret |-> Err("Authentication callback failed - manual entry required")]
        ELSE IF ~token.ok THEN [client |-> c, ret |-> token, served |-> served]
        ELSE [client |-> [access_token |-> Some(token.val.access_token),
                          refresh_token |-> token.val.refresh_token],
              ret |-> Ok(<<>>), served |-> served]

(***************************************************************************)
(* App (app.rs).                                                           *)
(***************************************************************************)
Phase(tag, msg) == [tag |-> tag, msg |-> msg]
Authenticating == Phase("Authenticating", "")
Loading == Phase("Loading", "")
Ready == Phase("Ready", "")
Error(msg) == Phase("Error", msg)
IsError(a) == a.state.tag = "Error"

\* App::new
NewApp ==
    [playlists |-> <<>>, current_tracks |-> <<>>, search_results |-> <<>>,
     currently_playing |-> None, queue |-> None,
     playlists_state |-> Some(0), tracks_state |-> Some(0), search_state |-> Some(0),
     focused_pane |-> "Playlists", show_search |-> FALSE, search_input |-> <<>>,
     show_playback_controls |-> FALSE, playback_controls_state |-> Some(0),
     show_help |-> FALSE, state |-> Authenticating, should_quit |-> FALSE,
     last_search_time |-> None]

\* What a handler leaves: the App, the remote calls it issued, and whether it
\* returned Ok(()) or Err (which `?` passes up to run).
Done(a, cs, ret) == [app |-> a, calls |-> cs, ret |-> ret]

\* The responses the service gives to the calls of one handler: tracks to
\* get_playlist_tracks, dev to get_available_devices, cmd to a playback or queue
\* command, queue to get_queue, playing to get_currently_playing, search to
\* search_tracks, token to the token endpoint.
Env(tracks, dev, cmd, queue, playing, search, token) ==
    [tracks |-> tracks, dev |-> dev, cmd |-> cmd, queue |-> queue,
     playing |-> playing, search |-> search, token |-> token]

\* App::get_display_tracks
get_display_tracks(a) == IF a.show_search THEN a.search_results ELSE a.current_tracks

\* App::update_currently_playing
update_currently_playing(h, c, e) ==
    LET r == get_currently_playing(c, e.playing)
        cs == Append(h.calls, Call("get_currently_playing", <<>>))
    IN  IF r.ok THEN Done([h.app EXCEPT !.currently_playing = r.val], cs, h.ret)
        ELSE Done(h.app, cs, h.ret)

\* App::update_queue
update_queue(h, c, e) ==
    LET r == get_queue(c, e.queue)
        cs == Append(h.calls, Call("get_queue", <<>>))
    IN  IF r.ok THEN Done([h.app EXCEPT !.queue = r.val], cs, h.ret)
        ELSE Done(h.app, cs, h.ret)

\* App::load_playlist_tracks
load_playlist_tracks(h, c, playlist_index, e) ==
    IF playlist_index < Len(h.app.playlists)
    THEN LET playlist_id == At(h.app.playlists, playlist_index)
             r == get_playlist_tracks(c, e.tracks)
             cs == Append(h.calls, Call("get_playlist_tracks", <<playlist_id>>))
         IN  IF r.ok
             THEN Done([h.app EXCEPT !.current_tracks = r.val, !.tracks_state = Some(0)],
                       cs, "Ok")
             ELSE Done(h.app, cs, "Err")
    ELSE Done(h.app, h.calls, "Ok")

\* PlayOrError that lets a failed play_track pass
PlayOrErrorSilent(h, c, uri, e) ==
    Done(h.app, Append(h.calls, Call("play_track", <<uri>>)), h.ret)

\* `if let Err(e) = self.spotify_client.play_track(&track.uri).await { Error }`
PlayOrError(h, c, uri, e) ==
    LET r == play_track(c, e.dev, e.cmd)
        cs == Append(h.calls, Call("play_track", <<uri>>))
    IN  IF r.ok THEN Done(h.app, cs, h.ret)
        ELSE Done([h.app EXCEPT !.state = Error(r.err)], cs, h.ret)

\* play the item a cursor selects, when it selects one that is there
PlaySelected(h, c, cursor, tracks, e) ==
    IF IsSome(cursor) /\ Unwrap(cursor) < Len(tracks)
    THEN PlayOrError(h, c, At(tracks, Unwrap(cursor)), e)
    ELSE h

\* add_current_track_to_queue that reads the playlist's cursor whichever list
\* is displayed
add_current_track_to_queue_by_tracks_state(h, c, e) ==
    LET tracks == get_display_tracks(h.app)
        selected_index == h.app.tracks_state
    IN  IF IsSome(selected_index) /\ Unwrap(selected_index) < Len(tracks)
        THEN LET r == add_to_queue(c, e.cmd)
                 cs == Append(h.calls,
                              Call("add_to_queue", <<At(tracks, Unwrap(selected_index))>>))
             IN  IF r.ok THEN update_queue(Done(h.app, cs, "Ok"), c, e)
                 ELSE Done([h.app EXCEPT !.state = Error(r.err)], cs, "Err")
        ELSE Done(h.app, h.calls, "Ok")

\* App::add_current_track_to_queue
add_current_track_to_queue(h, c, e) ==
    LET tracks == get_display_tracks(h.app)
        selected_index == IF h.app.show_search THEN h.app.search_state
                          ELSE h.app.tracks_state
    IN  IF IsSome(selected_index) /\ Unwrap(selected_index) < Len(tracks)
        THEN LET r == add_to_queue(c, e.cmd)
                 cs == Append(h.calls,
                              Call("add_to_queue", <<At(tracks, Unwrap(selected_index))>>))
             IN  IF r.ok THEN update_queue(Done(h.app, cs, "Ok"), c, e)
                 ELSE Done([h.app EXCEPT !.state = Error(r.err)], cs, "Err")
        ELSE Done(h.app, h.calls, "Ok")

\* `if let Err(e) = self.add_current_track_to_queue().await { Error }`: the key
\* handler goes on whatever it returned
AddOrError(h, c, e) ==
    LET r == add_current_track_to_queue(h, c, e)
    IN  Done(r.app, r.calls, h.ret)

(***************************************************************************)
(* Key events: [code, ch, ctrl]. code is a KeyCode ("Char" with its        *)
(* character in ch), ctrl is KeyModifiers::CONTROL.                        *)
(***************************************************************************)
Key(code) == [code |-> code, ch |-> "", ctrl |-> FALSE]
Char(ch, ctrl) == [code |-> "Char", ch |-> ch, ctrl |-> ctrl]
IsChar(k, ch) == k.code = "Char" /\ k.ch = ch
IsCtrl(k, ch) == IsChar(k, ch) /\ k.ctrl

\* `let selected = state.selected().unwrap_or(0); if selected > 0 { select(selected - 1) }`
SelectPrevious(cursor) ==
    IF UnwrapOr(cursor, 0) > 0 THEN Some(UnwrapOr(cursor, 0) - 1) ELSE cursor

\* SelectNext with the comparison `selected < len`
SelectNextPastEnd(cursor, len) ==
    IF UnwrapOr(cursor, 0) < len THEN Some(UnwrapOr(cursor, 0) + 1) ELSE cursor

\* `if selected < len - 1 { select(selected + 1) }`
SelectNext(cursor, len) ==
    IF UnwrapOr(cursor, 0) < len - 1 THEN Some(UnwrapOr(cursor, 0) + 1) ELSE cursor

\* `if let Some(selected) = state.selected() { if selected > 0 { ... } }`
SelectPreviousIfSome(cursor) ==
    IF IsSome(cursor) THEN SelectPrevious(cursor) ELSE cursor

SelectNextIfSome(cursor, len) ==
    IF IsSome(cursor) THEN SelectNext(cursor, len) ELSE cursor

\* handle_playback_controls_key whose first entry resumes whatever the player does
handle_playback_controls_key_resuming(h, c, k, e) ==
    LET a == h.app
        cmd(r, op) ==
            IF r.ok THEN Done(a, Append(h.calls, Call(op, <<>>)), "Ok")
            ELSE Done([a EXCEPT !.state = Error(r.err)], Append(h.calls, Call(op, <<>>)), "Ok")
    IN  CASE k.code = "Esc" ->
                Done([a EXCEPT !.show_playback_controls = FALSE], h.calls, "Ok")
          [] k.code = "Up" \/ IsCtrl(k, "p") ->
                Done([a EXCEPT !.playback_controls_state = SelectPrevious(@)], h.calls, "Ok")
          [] k.code = "Down" \/ IsCtrl(k, "n") ->
                Done([a EXCEPT !.playback_controls_state =
                                   SelectNext(@, PlaybackMenuLast + 1)], h.calls, "Ok")
          [] k.code = "Enter" /\ IsSome(a.playback_controls_state) ->
                CASE Unwrap(a.playback_controls_state) = 0 ->
                        cmd(resume_playback(c, e.cmd), "resume_playback")
                  [] Unwrap(a.playback_controls_state) = 1 ->
                        cmd(previous_track(c, e.cmd), "previous_track")
                  [] Unwrap(a.playback_controls_state) = 2 ->
                        cmd(next_track(c, e.cmd), "next_track")
                  [] Unwrap(a.playback_controls_state) = 3 ->
                        Done([a EXCEPT !.show_playback_controls = FALSE], h.calls, "Ok")
                  [] OTHER -> Done(a, h.calls, "Ok")
          [] OTHER -> Done(a, h.calls, "Ok")

\* App::handle_playback_controls_key
handle_playback_controls_key(h, c, k, e) ==
    LET a == h.app
        cmd(r, op) ==
            IF r.ok THEN Done(a, Append(h.calls, Call(op, <<>>)), "Ok")
            ELSE Done([a EXCEPT !.state = Error(r.err)], Append(h.calls, Call(op, <<>>)), "Ok")
    IN  CASE k.code = "Esc" ->
                Done([a EXCEPT !.show_playback_controls = FALSE], h.calls, "Ok")
          [] k.code = "Up" \/ IsCtrl(k, "p") ->
                Done([a EXCEPT !.playback_controls_state = SelectPrevious(@)], h.calls, "Ok")
          [] k.code = "Down" \/ IsCtrl(k, "n") ->
                Done([a EXCEPT !.playback_controls_state =
                                   SelectNext(@, PlaybackMenuLast + 1)], h.calls, "Ok")
          [] k.code = "Enter" /\ IsSome(a.playback_controls_state) ->
                CASE Unwrap(a.playback_controls_state) = 0 ->
                        IF IsSome(a.currently_playing) /\ Unwrap(a.currently_playing).is_playing
                        THEN cmd(pause_playback(c, e.cmd), "pause_playback")
                        ELSE cmd(resume_playback(c, e.cmd), "resume_playback")
                  [] Unwrap(a.playback_controls_state) = 1 ->
                        cmd(previous_track(c, e.cmd), "previous_track")
                  [] Unwrap(a.playback_controls_state) = 2 ->
                        cmd(next_track(c, e.cmd), "next_track")
                  [] Unwrap(a.playback_controls_state) = 3 ->
                        Done([a EXCEPT !.show_playback_controls = FALSE], h.calls, "Ok")
                  [] OTHER -> Done(a, h.calls, "Ok")
          [] OTHER -> Done(a, h.calls, "Ok")

\* SearchOverlayKey whose Backspace treats the emptied query as any other edit
SearchOverlayKeyKeepsResults(h, c, k, e) ==
    LET a == h.app
        onTracks == a.focused_pane = "Tracks" /\ ~IsEmpty(a.search_results)
    IN  CASE k.code = "Esc" ->
                Done([a EXCEPT !.show_search = FALSE, !.search_input = <<>>,
                               !.search_results = <<>>, !.focused_pane = "Playlists",
                               !.last_search_time = None], h.calls, h.ret)
          [] k.code = "Enter" ->
                IF ~IsEmpty(a.search_results)
                THEN Done([a EXCEPT !.focused_pane = "Tracks"], h.calls, h.ret)
                ELSE h
          [] IsCtrl(k, "p") \/ k.code = "Up" ->
                IF onTracks
                THEN Done([a EXCEPT !.search_state = SelectPrevious(@)], h.calls, h.ret)
                ELSE h
          [] IsCtrl(k, "n") \/ k.code = "Down" ->
                IF onTracks
                THEN Done([a EXCEPT !.search_state = SelectNext(@, Len(a.search_results))],
                          h.calls, h.ret)
                ELSE h
          [] IsChar(k, "+") ->
                IF a.focused_pane = "Tracks" THEN AddOrError(h, c, e) ELSE h
          [] k.code = "Char" /\ ~IsCtrl(k, "p") /\ ~IsCtrl(k, "n") /\ ~IsChar(k, "+") ->
                IF a.focused_pane = "SearchInput"
                THEN Done([a EXCEPT !.search_input = Append(@, k.ch),
                                    !.last_search_time = Some(0)], h.calls, h.ret)
                ELSE h
          [] k.code = "Backspace" ->
                IF a.focused_pane = "SearchInput"
                THEN Done([a EXCEPT !.search_input = Pop(@),
                                    !.last_search_time = Some(0)], h.calls, h.ret)
                ELSE h
          [] OTHER -> h

\* SearchOverlayKey whose Esc leaves the debounce timer as it is
SearchOverlayKeyEscKeepsTimer(h, c, k, e) ==
    LET a == h.app
        onTracks == a.focused_pane = "Tracks" /\ ~IsEmpty(a.search_results)
    IN  CASE k.code = "Esc" ->
                Done([a EXCEPT !.show_search = FALSE, !.search_input = <<>>,
                               !.search_results = <<>>, !.focused_pane = "Playlists"],
                     h.calls, h.ret)
          [] k.code = "Enter" ->
                IF ~IsEmpty(a.search_results)
                THEN Done([a EXCEPT !.focused_pane = "Tracks"], h.calls, h.ret)
                ELSE h
          [] IsCtrl(k, "p") \/ k.code = "Up" ->
                IF onTracks
                THEN Done([a EXCEPT !.search_state = SelectPrevious(@)], h.calls, h.ret)
                ELSE h
          [] IsCtrl(k, "n") \/ k.code = "Down" ->
                IF onTracks
                THEN Done([a EXCEPT !.search_state = SelectNext(@, Len(a.search_results))],
                          h.calls, h.ret)
                ELSE h
          [] IsChar(k, "+") ->
                IF a.focused_pane = "Tracks" THEN AddOrError(h, c, e) ELSE h
          [] k.code = "Char" /\ ~IsCtrl(k, "p") /\ ~IsCtrl(k, "n") /\ ~IsChar(k, "+") ->
                IF a.focused_pane = "SearchInput"
                THEN Done([a EXCEPT !.search_input = Append(@, k.ch),
                                    !.last_search_time = Some(0)], h.calls, h.ret)
                ELSE h
          [] k.code = "Backspace" ->
                IF a.focused_pane = "SearchInput"
                THEN IF IsEmpty(Pop(a.search_input))
                     THEN Done([a EXCEPT !.search_input = Pop(@), !.search_results = <<>>,
                                         !.last_search_time = None], h.calls, h.ret)
                     ELSE Done([a EXCEPT !.search_input = Pop(@),
                                         !.last_search_time = Some(0)], h.calls, h.ret)
                ELSE h
          [] OTHER -> h

\* SearchOverlayKey whose typing keeps a timestamp that is already pending
SearchOverlayKeyOneTimestamp(h, c, k, e) ==
    LET a == h.app
        onTracks == a.focused_pane = "Tracks" /\ ~IsEmpty(a.search_results)
    IN  CASE k.code = "Esc" ->
                Done([a EXCEPT !.show_search = FALSE, !.search_input = <<>>,
                               !.search_results = <<>>, !.focused_pane = "Playlists",
                               !.last_search_time = None], h.calls, h.ret)
          [] k.code = "Enter" ->
                IF ~IsEmpty(a.search_results)
                THEN Done([a EXCEPT !.focused_pane = "Tracks"], h.calls, h.ret)
                ELSE h
          [] IsCtrl(k, "p") \/ k.code = "Up" ->
                IF onTracks
                THEN Done([a EXCEPT !.search_state = SelectPrevious(@)], h.calls, h.ret)
                ELSE h
          [] IsCtrl(k, "n") \/ k.code = "Down" ->
                IF onTracks
                THEN Done([a EXCEPT !.search_state = SelectNext(@, Len(a.search_results))],
                          h.calls, h.ret)
                ELSE h
          [] IsChar(k, "+") ->
                IF a.focused_pane = "Tracks" THEN AddOrError(h, c, e) ELSE h
          [] k.code = "Char" /\ ~IsCtrl(k, "p") /\ ~IsCtrl(k, "n") /\ ~IsChar(k, "+") ->
                IF a.focused_pane = "SearchInput"
                THEN Done([a EXCEPT !.search_input = Append(@, k.ch),
                                    !.last_search_time = IF @ = None THEN Some(0) ELSE @],
                          h.calls, h.ret)
                ELSE h
          [] k.code = "Backspace" ->
                IF a.focused_pane = "SearchInput"
                THEN IF IsEmpty(Pop(a.search_input))
                     THEN Done([a EXCEPT !.search_input = Pop(@), !.search_results = <<>>,
                                         !.last_search_time = None], h.calls, h.ret)
                     ELSE Done([a EXCEPT !.search_input = Pop(@),
                                         !.last_search_time = Some(0)], h.calls, h.ret)
                ELSE h
          [] OTHER -> h

\* SearchOverlayKey whose Esc hides the overlay and leaves the search as it is
SearchOverlayKeyEscOnlyHides(h, c, k, e) ==
    LET a == h.app
        onTracks == a.focused_pane = "Tracks" /\ ~IsEmpty(a.search_results)
    IN  CASE k.code = "Esc" ->
                Done([a EXCEPT !.show_search = FALSE, !.focused_pane = "Playlists"],
                     h.calls, h.ret)
          [] k.code = "Enter" ->
                IF ~IsEmpty(a.search_results)
                THEN Done([a EXCEPT !.focused_pane = "Tracks"], h.calls, h.ret)
                ELSE h
          [] IsCtrl(k, "p") \/ k.code = "Up" ->
                IF onTracks
                THEN Done([a EXCEPT !.search_state = SelectPrevious(@)], h.calls, h.ret)
                ELSE h
          [] IsCtrl(k, "n") \/ k.code = "Down" ->
                IF onTracks
                THEN Done([a EXCEPT !.search_state = SelectNext(@, Len(a.search_results))],
                          h.calls, h.ret)
                ELSE h
          [] IsChar(k, "+") ->
                IF a.focused_pane = "Tracks" THEN AddOrError(h, c, e) ELSE h
          [] k.code = "Char" /\ ~IsCtrl(k, "p") /\ ~IsCtrl(k, "n") /\ ~IsChar(k, "+") ->
                IF a.focused_pane = "SearchInput"
                THEN Done([a EXCEPT !.search_input = Append(@, k.ch),
                                    !.last_search_time = Some(0)], h.calls, h.ret)
                ELSE h
          [] k.code = "Backspace" ->
                IF a.focused_pane = "SearchInput"
                THEN IF IsEmpty(Pop(a.search_input))
                     THEN Done([a EXCEPT !.search_input = Pop(@), !.search_results = <<>>,
                                         !.last_search_time = None], h.calls, h.ret)
                     ELSE Done([a EXCEPT !.search_input = Pop(@),
                                         !.last_search_time = Some(0)], h.calls, h.ret)
                ELSE h
          [] OTHER -> h

\* handle_key_event, `else if self.show_search { match key.code {...} }` (198-275)
SearchOverlayKey(h, c, k, e) ==
    LET a == h.app
        onTracks == a.focused_pane = "Tracks" /\ ~IsEmpty(a.search_results)
    IN  CASE k.code = "Esc" ->
                Done([a EXCEPT !.show_search = FALSE, !.search_input = <<>>,
                               !.search_results = <<>>, !.focused_pane = "Playlists",
                               !.last_search_time = None], h.calls, h.ret)
          [] k.code = "Enter" ->
                IF ~IsEmpty(a.search_results)
                THEN Done([a EXCEPT !.focused_pane = "Tracks"], h.calls, h.ret)
                ELSE h
          [] IsCtrl(k, "p") \/ k.code = "Up" ->
                IF onTracks
                THEN Done([a EXCEPT !.search_state = SelectPrevious(@)], h.calls, h.ret)
                ELSE h
          [] IsCtrl(k, "n") \/ k.code = "Down" ->
                IF onTracks
                THEN Done([a EXCEPT !.search_state = SelectNext(@, Len(a.search_results))],
                          h.calls, h.ret)
                ELSE h
          [] IsChar(k, "+") ->
                IF a.focused_pane = "Tracks" THEN AddOrError(h, c, e) ELSE h
          [] k.code = "Char" /\ ~IsCtrl(k, "p") /\ ~IsCtrl(k, "n") /\ ~IsChar(k, "+") ->
                IF a.focused_pane = "SearchInput"
                THEN Done([a EXCEPT !.search_input = Append(@, k.ch),
                                    !.last_search_time = Some(0)], h.calls, h.ret)
                ELSE h
          [] k.code = "Backspace" ->
                IF a.focused_pane = "SearchInput"
                THEN IF IsEmpty(Pop(a.search_input))
                     THEN Done([a EXCEPT !.search_input = Pop(@), !.search_results = <<>>,
                                         !.last_search_time = None], h.calls, h.ret)
                     ELSE Done([a EXCEPT !.search_input = Pop(@),
                                         !.last_search_time = Some(0)], h.calls, h.ret)
                ELSE h
          [] OTHER -> h

\* the Up / Ctrl+P arm of the last match (294-324, 363-392)
PaneUp(h, c, e) ==
    LET a == h.app
    IN  CASE a.focused_pane = "Playlists" ->
                IF ~IsEmpty(a.playlists) /\ UnwrapOr(a.playlists_state, 0) > 0
                THEN load_playlist_tracks(
                        Done([a EXCEPT !.playlists_state = SelectPrevious(@)], h.calls, h.ret),
                        c, UnwrapOr(a.playlists_state, 0) - 1, e)
                ELSE h
          [] a.focused_pane = "Tracks" ->
                IF a.show_search /\ ~IsEmpty(a.search_results)
                THEN Done([a EXCEPT !.search_state = SelectPreviousIfSome(@)], h.calls, h.ret)
                ELSE IF ~IsEmpty(a.current_tracks)
                THEN Done([a EXCEPT !.tracks_state = SelectPrevious(@)], h.calls, h.ret)
                ELSE h
          [] OTHER -> h

\* PaneDown loading the tracks of the playlist the cursor has left
PaneDownStale(h, c, e) ==
    LET a == h.app
    IN  CASE a.focused_pane = "Playlists" ->
                IF ~IsEmpty(a.playlists)
                   /\ UnwrapOr(a.playlists_state, 0) < Len(a.playlists) - 1
                THEN load_playlist_tracks(
                        Done([a EXCEPT !.playlists_state = SelectNext(@, Len(a.playlists))],
                             h.calls, h.ret),
                        c, UnwrapOr(a.playlists_state, 0), e)
                ELSE h
          [] a.focused_pane = "Tracks" ->
                IF a.show_search /\ ~IsEmpty(a.search_results)
                THEN Done([a EXCEPT !.search_state =
                                        SelectNextIfSome(@, Len(a.search_results))],
                          h.calls, h.ret)
                ELSE IF ~IsEmpty(a.current_tracks)
                THEN Done([a EXCEPT !.tracks_state = SelectNext(@, Len(a.current_tracks))],
                          h.calls, h.ret)
                ELSE h
          [] OTHER -> h

\* the Down / Ctrl+N arm of the last match (325-355, 393-422)
PaneDown(h, c, e) ==
    LET a == h.app
    IN  CASE a.focused_pane = "Playlists" ->
                IF ~IsEmpty(a.playlists)
                   /\ UnwrapOr(a.playlists_state, 0) < Len(a.playlists) - 1
                THEN load_playlist_tracks(
                        Done([a EXCEPT !.playlists_state = SelectNext(@, Len(a.playlists))],
                             h.calls, h.ret),
                        c, UnwrapOr(a.playlists_state, 0) + 1, e)
                ELSE h
          [] a.focused_pane = "Tracks" ->
                IF a.show_search /\ ~IsEmpty(a.search_results)
                THEN Done([a EXCEPT !.search_state =
                                        SelectNextIfSome(@, Len(a.search_results))],
                          h.calls, h.ret)
                ELSE IF ~IsEmpty(a.current_tracks)
                THEN Done([a EXCEPT !.tracks_state = SelectNext(@, Len(a.current_tracks))],
                          h.calls, h.ret)
                ELSE h
          [] OTHER -> h

\* NextPane that goes from Tracks to SearchInput whether or not the search
\* overlay is shown
NextPaneOfThree(a) ==
    CASE a.focused_pane = "Playlists" -> "Tracks"
      [] a.focused_pane = "Tracks" -> "SearchInput"
      [] OTHER -> "Playlists"

\* the Tab arm (356-362)
NextPane(a) ==
    CASE a.focused_pane = "Playlists" -> "Tracks"
      [] a.focused_pane = "Tracks" ->
            IF a.show_search THEN "SearchInput" ELSE "Playlists"
      [] OTHER -> "Playlists"

\* the Enter arm of the last match (423-454)
PaneEnter(h, c, e) ==
    LET a == h.app
    IN  CASE a.focused_pane = "Tracks" ->
                IF a.show_search
                THEN PlaySelected(h, c, a.search_state, a.search_results, e)
                ELSE PlaySelected(h, c, a.tracks_state, a.current_tracks, e)
          [] a.focused_pane = "SearchInput" ->
                IF ~IsEmpty(a.search_results)
                THEN Done([a EXCEPT !.focused_pane = "Tracks", !.search_state = Some(0)],
                          h.calls, h.ret)
                ELSE h
          [] OTHER -> h

\* PaneKey whose 's' opens the search overlay without moving the focus
PaneKeyKeepsFocus(h, c, k, e) ==
    LET a == h.app
    IN  CASE IsChar(k, "q") -> Done([a EXCEPT !.should_quit = TRUE], h.calls, h.ret)
          [] IsChar(k, "s") ->
                Done([a EXCEPT !.show_search = TRUE, !.search_input = <<>>,
                               !.search_results = <<>>], h.calls, h.ret)
          [] IsChar(k, " ") ->
                Done([a EXCEPT !.show_playback_controls = TRUE,
                               !.playback_controls_state = Some(0)], h.calls, h.ret)
          [] IsChar(k, "?") -> Done([a EXCEPT !.show_help = TRUE], h.calls, h.ret)
          [] (IsCtrl(k, "p") \/ k.code = "Up") -> PaneUp(h, c, e)
          [] (IsCtrl(k, "n") \/ k.code = "Down") -> PaneDown(h, c, e)
          [] k.code = "Tab" -> Done([a EXCEPT !.focused_pane = NextPane(a)], h.calls, h.ret)
          [] k.code = "Enter" -> PaneEnter(h, c, e)
          [] IsChar(k, "+") ->
                IF a.focused_pane = "Tracks" THEN AddOrError(h, c, e) ELSE h
          [] OTHER -> h

\* handle_key_event, the last `else { match key.code {...} }` (276-464)
PaneKey(h, c, k, e) ==
    LET a == h.app
    IN  CASE IsChar(k, "q") -> Done([a EXCEPT !.should_quit = TRUE], h.calls, h.ret)
          [] IsChar(k, "s") ->
                Done([a EXCEPT !.show_search = TRUE, !.search_input = <<>>,
                               !.search_results = <<>>, !.focused_pane = "SearchInput"],
                     h.calls, h.ret)
          [] IsChar(k, " ") ->
                Done([a EXCEPT !.show_playback_controls = TRUE,
                               !.playback_controls_state = Some(0)], h.calls, h.ret)
          [] IsChar(k, "?") -> Done([a EXCEPT !.show_help = TRUE], h.calls, h.ret)
          [] (IsCtrl(k, "p") \/ k.code = "Up") -> PaneUp(h, c, e)
          [] (IsCtrl(k, "n") \/ k.code = "Down") -> PaneDown(h, c, e)
          [] k.code = "Tab" -> Done([a EXCEPT !.focused_pane = NextPane(a)], h.calls, h.ret)
          [] k.code = "Enter" -> PaneEnter(h, c, e)
          [] IsChar(k, "+") ->
                IF a.focused_pane = "Tracks" THEN AddOrError(h, c, e) ELSE h
          [] OTHER -> h

\* handle_key_event, the closing `if self.show_search && Tracks { if Enter {...} }`
TrailingEnter(h, c, k, e) ==
    IF h.app.show_search /\ h.app.focused_pane = "Tracks" /\ k.code = "Enter"
    THEN PlaySelected(h, c, h.app.search_state, h.app.search_results, e)
    ELSE h

\* handle_key_event that dismisses the error and goes on to handle the key
handle_key_event_through(a, c, k, e) ==
    LET b == IF IsError(a) THEN [a EXCEPT !.state = Ready] ELSE a
        h == Done(b, <<>>, "Ok")
    IN  IF b.show_help
        THEN IF k.code = "Esc" \/ IsChar(k, "?")
             THEN Done([b EXCEPT !.show_help = FALSE], <<>>, "Ok")
             ELSE h
        ELSE IF b.show_playback_controls THEN handle_playback_controls_key(h, c, k, e)
        ELSE LET m == IF b.show_search THEN SearchOverlayKey(h, c, k, e)
                      ELSE PaneKey(h, c, k, e)
             IN  IF m.ret = "Err" THEN m ELSE TrailingEnter(m, c, k, e)

\* handle_key_event whose Help overlay passes the keys it does not take on to
\* the panes
handle_key_event_under_help(a, c, k, e) ==
    LET h == Done(a, <<>>, "Ok")
    IN  IF IsError(a) THEN Done([a EXCEPT !.state = Ready], <<>>, "Ok")
        ELSE IF a.show_help /\ (k.code = "Esc" \/ IsChar(k, "?"))
        THEN Done([a EXCEPT !.show_help = FALSE], <<>>, "Ok")
        ELSE IF a.show_playback_controls THEN handle_playback_controls_key(h, c, k, e)
        ELSE LET m == IF a.show_search THEN SearchOverlayKey(h, c, k, e)
                      ELSE PaneKey(h, c, k, e)
             IN  IF m.ret = "Err" THEN m ELSE TrailingEnter(m, c, k, e)

\* handle_key_event whose '?' opens the Help overlay over the search overlay too
handle_key_event_help_anywhere(a, c, k, e) ==
    LET h == Done(a, <<>>, "Ok")
    IN  IF IsError(a) THEN Done([a EXCEPT !.state = Ready], <<>>, "Ok")
        ELSE IF a.show_help
        THEN IF k.code = "Esc" \/ IsChar(k, "?")
             THEN Done([a EXCEPT !.show_help = FALSE], <<>>, "Ok")
             ELSE h
        ELSE IF a.show_playback_controls THEN handle_playback_controls_key(h, c, k, e)
        ELSE LET m == IF a.show_search /\ ~IsChar(k, "?") THEN SearchOverlayKey(h, c, k, e)
                      ELSE PaneKey(h, c, k, e)
             IN  IF m.ret = "Err" THEN m ELSE TrailingEnter(m, c, k, e)

\* App::handle_key_event
handle_key_event(a, c, k, e) ==
    LET h == Done(a, <<>>, "Ok")
    IN  IF IsError(a) THEN Done([a EXCEPT !.state = Ready], <<>>, "Ok")
        ELSE IF a.show_help
        THEN IF k.code = "Esc" \/ IsChar(k, "?")
             THEN Done([a EXCEPT !.show_help = FALSE], <<>>, "Ok")
             ELSE h
        ELSE IF a.show_playback_controls THEN handle_playback_controls_key(h, c, k, e)
        ELSE LET m == IF a.show_search THEN SearchOverlayKey(h, c, k, e)
                      ELSE PaneKey(h, c, k, e)
             IN  IF m.ret = "Err" THEN m ELSE TrailingEnter(m, c, k, e)

\* check_pending_search that leaves the timer set after a search
check_pending_search_again(a, c, e) ==
    IF IsSome(a.last_search_time) /\ Unwrap(a.last_search_time) >= search_debounce_ms
    THEN IF ~IsEmpty(a.search_input)
         THEN LET r == search_tracks(c, e.search)
                  cs == <<Call("search_tracks", a.search_input)>>
              IN  IF r.ok
                  THEN Done([a EXCEPT !.search_results = r.val, !.search_state = None],
                            cs, "Ok")
                  ELSE Done(a, cs, "Ok")
         ELSE Done([a EXCEPT !.last_search_time = None], <<>>, "Ok")
    ELSE Done(a, <<>>, "Ok")

\* check_pending_search that keeps the timer when the search fails
check_pending_search_retrying(a, c, e) ==
    IF IsSome(a.last_search_time) /\ Unwrap(a.last_search_time) >= search_debounce_ms
    THEN IF ~IsEmpty(a.search_input)
         THEN LET r == search_tracks(c, e.search)
                  cs == <<Call("search_tracks", a.search_input)>>
              IN  IF r.ok
                  THEN Done([a EXCEPT !.last_search_time = None, !.search_results = r.val,
                                      !.search_state = None], cs, "Ok")
                  ELSE Done(a, cs, "Ok")
         ELSE Done([a EXCEPT !.last_search_time = None], <<>>, "Ok")
    ELSE Done(a, <<>>, "Ok")

\* check_pending_search that leaves the results cursor where it was
check_pending_search_keeps_cursor(a, c, e) ==
    IF IsSome(a.last_search_time) /\ Unwrap(a.last_search_time) >= search_debounce_ms
    THEN IF ~IsEmpty(a.search_input)
         THEN LET r == search_tracks(c, e.search)
                  cs == <<Call("search_tracks", a.search_input)>>
              IN  IF r.ok
                  THEN Done([a EXCEPT !.last_search_time = None, !.search_results = r.val],
                            cs, "Ok")
                  ELSE Done([a EXCEPT !.last_search_time = None], cs, "Ok")
         ELSE Done([a EXCEPT !.last_search_time = None], <<>>, "Ok")
    ELSE Done(a, <<>>, "Ok")

\* App::check_pending_search
check_pending_search(a, c, e) ==
    IF IsSome(a.last_search_time) /\ Unwrap(a.last_search_time) >= search_debounce_ms
    THEN IF ~IsEmpty(a.search_input)
         THEN LET r == search_tracks(c, e.search)
                  cs == <<Call("search_tracks", a.search_input)>>
              IN  IF r.ok
                  THEN Done([a EXCEPT !.last_search_time = None, !.search_results = r.val,
                                      !.search_state = None], cs, "Ok")
                  ELSE Done([a EXCEPT !.last_search_time = None], cs, "Ok")
         ELSE Done([a EXCEPT !.last_search_time = None], <<>>, "Ok")
    ELSE Done(a, <<>>, "Ok")

(***************************************************************************)
(* What the service may answer.                                            *)
(***************************************************************************)
PlaylistResps == {NetErr, Malformed} \cup {Good(b) : b \in PlaylistBodies}
TrackResps == {NetErr, Malformed} \cup {Good(b) : b \in TrackBodies}
SearchResps == {NetErr, Malformed} \cup {Good(b) : b \in ResultBodies}
DevResps == {NetErr, Good(<<>>), Good(<<"device">>)}
CmdResps == {NetErr, Status(404), Status(403), Good(<<>>)}
QueueResps == {NetErr, Status(500)} \cup {Good(<<b>>) : b \in QueueBodies}
PlayingResps == {NetErr, Status(500), Good(<<>>)} \cup {Good(<<b>>) : b \in PlayingBodies}
ExchangeResps == {NetErr, Malformed} \cup
                 {Good(TokenBody("at0", rt)) : rt \in {None, Some("rt0")}}
RefreshResps == {NetErr, Status(400), Malformed} \cup
                {Good(TokenBody("at1", rt)) : rt \in {None, Some("rt1")}}

\* the parameters a redirect may carry, with the values of each
ParamKeys == {"code", "state", "error"}
ParamValues(k) ==
    CASE k = "code" -> {"ABC123", "A/1"}
      [] k = "state" -> {"xyz"}
      [] OTHER -> {"access_denied"}
\* the lists of at most MaxParams parameters of distinct keys; the authorization
\* server redirects with a code or with an error, never with both
ParamLists ==
    UNION {{ps \in [1..n -> {<<k, v>> : k \in ParamKeys, v \in {"ABC123", "A/1", "xyz",
                                                                "access_denied"}}] :
               /\ \A i \in 1..n : ps[i][2] \in ParamValues(ps[i][1])
               /\ \A i, j \in 1..n : ps[i][1] = ps[j][1] => i = j
               /\ \A i, j \in 1..n : ~(ps[i][1] = "code" /\ ps[j][1] = "error")} :
           n \in 0..MaxParams}
CallbackConns == {Callback(Patterns[i], ps) : i \in 1..2, ps \in ParamLists}
\* connections that do not send the request line of a redirect: a request for
\* another path, a redirect sent with POST, a redirect cut before the space
\* that ends its target, a form posted with the text of a redirect in its body
OtherConns ==
    {Closed, Silent, AcceptErr,
     Raw(<<"GET /favicon.ico", " ", "HTTP/1.1">>),
     Raw(<<"POST /callback?", "code", "=", "ABC123", " ", "HTTP/1.1">>),
     Raw(<<"GET /?", "code", "=", "ABC123">>),
     Raw(<<"POST /form", " ", "HTTP/1.1", "note", "=", "GET /?", "code", "=", "xyz", " ">>)}
\* the connections of one attempt, at most MaxConnections
ConnSeqs == UNION {[1..n -> CallbackConns \cup OtherConns] : n \in 0..MaxConnections}
\* the redirect of a user who consents
Redirected ==
    Attempt(TRUE, TRUE, <<Callback(Patterns[1], <<<<"code", "ABC123">>, <<"state", "xyz">>>>)>>,
            TRUE)
Callbacks == {Attempt(FALSE, TRUE, <<>>, TRUE), Attempt(TRUE, FALSE, <<>>, TRUE)}
             \cup {Attempt(TRUE, TRUE, cs, wr) : cs \in ConnSeqs, wr \in BOOLEAN}

(***************************************************************************)
(* A world is what surrounds one run of the program: the key events the    *)
(* user may press, the waits between events, and the answers the service   *)
(* may give to each call; timers names the periodic work ("update",        *)
(* "refresh") whose period the session outlasts. A specification below is  *)
(* the program in one world. The user types no more than MaxQueryLen       *)
(* characters into the search box.                                         *)
(***************************************************************************)
World(keys, waits, timers, pl, tr, se, dev, cmd, qu, pg, cb, ex, rf) ==
    [keys |-> keys, waits |-> waits, timers |-> timers,
     playlists |-> pl, tracks |-> tr, search |-> se, dev |-> dev, cmd |-> cmd,
     queue |-> qu, playing |-> pg, callbacks |-> cb, exchange |-> ex, refresh |-> rf]

\* the answers when everything works
CalmEnv == Env(Good(<<>>), Good(<<"device">>), Good(<<>>), Good(<<[queue |-> <<>>]>>),
               Good(<<>>), Good(<<>>), Good(TokenBody("at1", None)))

Ops(cs) == {cs[i].op : i \in 1..Len(cs)}

\* the answers the service of world w may give to the calls a handler makes, ops
\* being the methods it calls when everything works
EnvsFor(w, ops) ==
    {Env(t, d, m, q, CalmEnv.playing, CalmEnv.search, CalmEnv.token) :
        t \in IF "get_playlist_tracks" \in ops THEN w.tracks ELSE {CalmEnv.tracks},
        d \in IF "play_track" \in ops THEN w.dev ELSE {CalmEnv.dev},
        m \in IF ops \cap {"play_track", "add_to_queue", "pause_playback",
                           "resume_playback", "next_track", "previous_track"} /= {}
              THEN w.cmd ELSE {CalmEnv.cmd},
        q \in IF "get_queue" \in ops THEN w.queue ELSE {CalmEnv.queue}}

(***************************************************************************)
(* Time. last_search_time is kept as the time elapsed since it was taken,  *)
(* in milliseconds, up to the debounce interval, beyond which the loop     *)
(* does not tell values apart. The two timers of run are compared with     *)
(* thresholds of seconds and minutes: of those the model keeps only        *)
(* whether the threshold has been reached, and a wait shorter than the     *)
(* threshold may or may not reach it.                                      *)
(***************************************************************************)
Min(x, y) == IF x <= y THEN x ELSE y

\* Instant::elapsed after a further d ms
Later(t, d) == IF t = None THEN None ELSE Some(Min(search_debounce_ms, Unwrap(t) + d))

\* the values `elapsed` may have after a further d ms, for a timer compared with due
Elapsed(t, d, due) ==
    IF t >= due \/ d >= due THEN {due}
    ELSE IF d = 0 THEN {t}
    ELSE {t, due}

PollDue == PollSecs * 1000
RefreshDue == RefreshSecs * 1000

\* how long crossterm::event::poll(50 ms) may wait before an event is there
Waits == {0, EventPollMs}
\* the same when the tick before it was held up for at least the debounce interval
SlowWaits == {0, search_debounce_ms}

\* no authorization attempt is under way
NoAttempt == [conns |-> <<>>, cause |-> "none", code |-> None, sent |-> <<>>]

(***************************************************************************)
(* App's startup and periodic operations.                                  *)
(***************************************************************************)
\* App::authenticate. Of the message "Authentication failed: {e}" the phase
\* keeps e.
App_authenticate(a, c, cb, r) ==
    LET res == authenticate(c, cb, r)
    IN  [app |-> [a EXCEPT !.state = IF res.ret.ok THEN Ready ELSE Error(res.ret.err)],
         client |-> res.client, served |-> res.served,
         ret |-> IF res.ret.ok THEN "Ok" ELSE "Err"]

\* App::refresh_access_token. Of the message "Authentication failed: {e}" the
\* phase keeps e.
App_refresh_access_token(a, c, r) ==
    LET res == refresh_access_token(c, r)
    IN  [app |-> IF res.panic THEN a
                 ELSE [a EXCEPT !.state = IF res.ret.ok THEN Ready
                                          ELSE Error(res.ret.err)],
         client |-> res.client, panic |-> res.panic,
         ret |-> IF res.ret.ok THEN "Ok" ELSE "Err"]

\* App::load_playlists
load_playlists(a, c, r, e) ==
    LET res == get_playlists(c, r)
        cs == <<Call("get_playlists", <<>>)>>
        a1 == [a EXCEPT !.state = Loading]
    IN  IF res.ok
        THEN LET a2 == [a1 EXCEPT !.playlists = res.val]
                 h == IF ~IsEmpty(a2.playlists)
                      THEN load_playlist_tracks(Done(a2, cs, "Ok"), c, 0, e)
                      ELSE Done(a2, cs, "Ok")
             IN  IF h.ret = "Err" THEN h
                 ELSE Done([h.app EXCEPT !.state = Ready], h.calls, "Ok")
        ELSE Done([a1 EXCEPT !.state = Error("Failed to load playlists")], cs, "Err")

(***************************************************************************)
(* App::run. pc: "authenticate", "load_playlists", then the loop's steps   *)
(* "draw", "quit_check", "update", "refresh", "search", "input"; run has   *)
(* returned Ok at "quit" and Err at "failed", and the process has          *)
(* panicked at "panicked".                                                 *)
(***************************************************************************)
\* the tasks that share one SpotifyClient (`&self` methods over the two
\* Arc<Mutex<Option<String>>> fields)
Tasks == 1..MaxTasks

\* a task that is in none of the client's methods; token is the token the
\* request it has in flight carries, resp the response it has yet to apply,
\* ret what its last call returned
Idle == [pc |-> "idle", token |-> None, resp |-> None, ret |-> None]

Init ==
    /\ app = NewApp
    /\ client = NewClient
    /\ pc = "authenticate"
    /\ last_update = 0
    /\ last_refreshed = 0
    /\ key = None
    /\ calls = <<>>
    /\ searches = 0
    /\ auth = NoAttempt
    /\ tasks = [t \in Tasks |-> Idle]
    /\ locks = [access_token |-> None, refresh_token |-> None]

\* what run holds once authenticate has returned res in the attempt cb
AuthenticateIn(cb, res) ==
    /\ app' = res.app
    /\ client' = res.client
    /\ pc' = IF res.ret = "Ok" THEN "load_playlists" ELSE "failed"
    /\ calls' = IF res.served.cause = "code"
                THEN <<Call("exchange_code_for_token", Unwrap(res.served.code))>>
                ELSE <<>>
    /\ auth' = [conns |-> IF cb.browser /\ cb.bind THEN cb.conns ELSE <<>>,
                cause |-> res.served.cause, code |-> res.served.code,
                sent |-> res.served.sent]

\* run: self.authenticate().await?
Authenticate(w) ==
    /\ pc = "authenticate"
    /\ \E cb \in w.callbacks, r \in w.exchange :
          AuthenticateIn(cb, App_authenticate(app, client, cb, r))
    /\ UNCHANGED <<last_update, last_refreshed, key, searches>>
    /\ UNCHANGED <<tasks, locks>>

\* run: self.load_playlists().await?; the two Instants are taken
LoadPlaylists(w) ==
    /\ pc = "load_playlists"
    /\ \E r \in w.playlists, t \in w.tracks :
          LET h == load_playlists(app, client, r,
                                  [CalmEnv EXCEPT !.tracks = t])
          IN  /\ app' = h.app
              /\ calls' = h.calls
              /\ pc' = IF h.ret = "Ok" THEN "draw" ELSE "failed"
    /\ last_update' = 0
    /\ last_refreshed' = 0
    /\ auth' = NoAttempt
    /\ UNCHANGED <<client, key, searches>>
    /\ UNCHANGED <<tasks, locks>>

\* terminal.draw(|f| ui::draw(f, self))
Draw ==
    /\ pc = "draw"
    /\ pc' = "quit_check"
    /\ key' = None
    /\ calls' = <<>>
    /\ UNCHANGED <<app, client, last_update, last_refreshed, searches>>
    /\ UNCHANGED auth
    /\ UNCHANGED <<tasks, locks>>

\* the quit test that lets the loop go on
QuitCheckGoesOn ==
    /\ pc = "quit_check"
    /\ pc' = "update"
    /\ calls' = <<>>
    /\ UNCHANGED <<app, client, last_update, last_refreshed, key, searches>>
    /\ UNCHANGED auth
    /\ UNCHANGED <<tasks, locks>>

\* if self.should_quit { break }
QuitCheck ==
    /\ pc = "quit_check"
    /\ pc' = IF app.should_quit THEN "quit" ELSE "update"
    /\ calls' = <<>>
    /\ UNCHANGED <<app, client, last_update, last_refreshed, key, searches>>
    /\ UNCHANGED auth
    /\ UNCHANGED <<tasks, locks>>

\* if last_update.elapsed() >= 2 s { update_currently_playing; update_queue }
Update(w) ==
    /\ pc = "update"
    /\ IF last_update >= PollDue
       THEN \E p \in w.playing, q \in w.queue :
               LET e == [CalmEnv EXCEPT !.playing = p, !.queue = q]
                   h == update_queue(
                           update_currently_playing(Done(app, <<>>, "Ok"), client, e),
                           client, e)
               IN  /\ app' = h.app
                   /\ calls' = h.calls
                   /\ last_update' = 0
       ELSE /\ calls' = <<>>
            /\ UNCHANGED <<app, last_update>>
    /\ pc' = "refresh"
    /\ UNCHANGED <<client, last_refreshed, key, searches>>
    /\ UNCHANGED auth
    /\ UNCHANGED <<tasks, locks>>

\* if last_refreshed.elapsed() >= 600 s { self.refresh_access_token().await? }
Refresh(w) ==
    /\ pc = "refresh"
    /\ IF last_refreshed >= RefreshDue
       THEN \E r \in w.refresh :
               LET res == App_refresh_access_token(app, client, r)
               IN  /\ app' = res.app
                   /\ client' = res.client
                   /\ calls' = IF res.panic THEN <<>>
                               ELSE <<Call("refresh_access_token", <<>>)>>
                   /\ pc' = IF res.panic THEN "panicked"
                            ELSE IF res.ret = "Err" THEN "failed" ELSE "search"
                   /\ last_refreshed' = IF res.ret = "Ok" /\ ~res.panic THEN 0
                                        ELSE last_refreshed
       ELSE /\ pc' = "search"
            /\ calls' = <<>>
            /\ UNCHANGED <<app, client, last_refreshed>>
    /\ UNCHANGED <<last_update, key, searches>>
    /\ UNCHANGED auth
    /\ UNCHANGED <<tasks, locks>>

\* self.check_pending_search().await
Search(w) ==
    /\ pc = "search"
    /\ \E r \in IF IsSome(app.last_search_time)
                   /\ Unwrap(app.last_search_time) >= search_debounce_ms
                   /\ ~IsEmpty(app.search_input)
                THEN w.search ELSE {CalmEnv.search} :
          LET h == check_pending_search(app, client, [CalmEnv EXCEPT !.search = r])
          IN  /\ app' = h.app
              /\ calls' = h.calls
              /\ searches' = Min(2, searches + Len(h.calls))
    /\ pc' = "input"
    /\ UNCHANGED <<client, last_update, last_refreshed, key>>
    /\ UNCHANGED auth
    /\ UNCHANGED <<tasks, locks>>

\* the time d passes for the three timers, and the event loop is at its next tick
Pass(w, d) ==
    /\ last_update' \in IF "update" \in w.timers
                        THEN Elapsed(last_update, d, PollDue) ELSE {last_update}
    /\ last_refreshed' \in IF "refresh" \in w.timers
                           THEN Elapsed(last_refreshed, d, RefreshDue)
                           ELSE {last_refreshed}

\* Input that, having handled a key event, reads the next one before the
\* periodic work of the next tick
InputDrains(w) ==
    /\ pc = "input"
    /\ \E d \in w.waits :
          LET waited == [app EXCEPT !.last_search_time = Later(@, d)]
          IN  /\ Pass(w, d)
              /\ \/ /\ app' = waited
                    /\ key' = None
                    /\ calls' = <<>>
                    /\ pc' = "draw"
                    /\ UNCHANGED searches
                 \/ \E k \in w.keys :
                       \E e \in EnvsFor(w, Ops(handle_key_event(waited, client, k,
                                                                CalmEnv).calls)) :
                          LET h == handle_key_event(waited, client, k, e)
                          IN  /\ Len(h.app.search_input) <= MaxQueryLen
                              /\ app' = h.app
                              /\ key' = Some(k)
                              /\ calls' = h.calls
                              /\ pc' = IF h.ret = "Err" THEN "failed" ELSE "input"
                              /\ searches' =
                                    IF h.app.search_input /= app.search_input
                                       \/ h.app.last_search_time = Some(0)
                                    THEN 0 ELSE searches
    /\ UNCHANGED <<client, auth>>
    /\ UNCHANGED <<tasks, locks>>

\* if event::poll(50 ms)? { if let Event::Key(key) = event::read()? { handle } }
\* after a wait d there is a key event, or there is none (the wait ended, or the
\* event is not a key)
Input(w) ==
    /\ pc = "input"
    /\ \E d \in w.waits :
          LET waited == [app EXCEPT !.last_search_time = Later(@, d)]
          IN  /\ Pass(w, d)
              /\ \/ /\ app' = waited
                    /\ key' = None
                    /\ calls' = <<>>
                    /\ pc' = "draw"
                    /\ UNCHANGED searches
                 \/ \E k \in w.keys :
                       \E e \in EnvsFor(w, Ops(handle_key_event(waited, client, k,
                                                                CalmEnv).calls)) :
                          LET h == handle_key_event(waited, client, k, e)
                          IN  /\ Len(h.app.search_input) <= MaxQueryLen
                              /\ app' = h.app
                              /\ key' = Some(k)
                              /\ calls' = h.calls
                              /\ pc' = IF h.ret = "Err" THEN "failed" ELSE "draw"
                              /\ searches' =
                                    IF h.app.search_input /= app.search_input
                                       \/ h.app.last_search_time = Some(0)
                                    THEN 0 ELSE searches
    /\ UNCHANGED <<client, auth>>
    /\ UNCHANGED <<tasks, locks>>

(***************************************************************************)
(* The key events of the model: the keys the handlers name, one character  *)
(* they do not name ("a"), and one key code they do not name ("F1").       *)
(***************************************************************************)
Chars == {"q", "s", " ", "?", "p", "n", "+", "a"}
AllKeys == {Key(code) : code \in {"Esc", "Enter", "Tab", "Up", "Down", "Backspace", "F1"}}
           \cup {Char(ch, ctrl) : ch \in Chars, ctrl \in BOOLEAN}

\* one step of App::run in world w
Run(w) ==
    \/ Authenticate(w)
    \/ LoadPlaylists(w)
    \/ Draw
    \/ QuitCheck
    \/ Update(w)
    \/ Refresh(w)
    \/ Search(w)
    \/ Input(w)

\* the service when it works and holds one user playlist, one track in each
\* playlist and one device
OneTrack ==
    World({}, SlowWaits, {}, {Good(<<"A">>)}, {Good(<<"t1">>)}, {Good(<<"r1">>)},
          {Good(<<"device">>)}, {Good(<<>>)}, {Good(<<[queue |-> <<>>]>>)}, {Good(<<>>)},
          {Redirected}, {Good(TokenBody("at0", Some("rt0")))},
          {Good(TokenBody("at1", Some("rt1")))})

\* every key over a service whose commands and searches may fail
Keyboard ==
    [OneTrack EXCEPT !.keys = AllKeys \ {Char("p", FALSE), Char("n", FALSE), Char("a", TRUE),
                                         Char("a", FALSE)},
                     !.search = {NetErr, Good(<<"r1">>)},
                     !.cmd = {NetErr, Good(<<>>)}]

\* moving through playlists, tracks and search results of every size
Browsing ==
    [OneTrack EXCEPT !.keys =
                        {Key("Up"), Key("Down"), Char("p", TRUE), Char("n", TRUE), Key("Tab"),
                         Key("Enter"), Key("Esc"), Char("s", FALSE), Char("a", FALSE)},
                     !.playlists = PlaylistResps,
                     !.tracks = TrackResps,
                     !.search = SearchResps]

\* typing into the search box, tick by tick
Typing ==
    [OneTrack EXCEPT !.keys =
                        {Char("s", FALSE), Char("a", FALSE), Char("+", FALSE), Key("Backspace"),
                         Key("Esc"), Key("Enter")},
                     !.waits = Waits,
                     !.search = SearchResps]

\* the periodic work of the event loop, under key presses
Ticking ==
    [OneTrack EXCEPT !.keys = {Char("q", FALSE), Char("s", FALSE), Char("a", FALSE),
                               Key("Enter"), Key("Esc"), Key("Tab")},
                     !.timers = {"update", "refresh"},
                     !.search = {NetErr, Good(<<"r1">>)},
                     !.cmd = {NetErr, Good(<<>>)},
                     !.playing = PlayingResps, !.queue = QueueResps,
                     !.exchange = ExchangeResps, !.refresh = RefreshResps]

\* the startup of run, whatever the browser, the listener's peers and the
\* service do
Starting ==
    [OneTrack EXCEPT !.keys = {Char("q", FALSE), Char("a", FALSE)},
                     !.callbacks = Callbacks,
                     !.exchange = ExchangeResps,
                     !.playlists = {NetErr, Malformed, Good(<<>>), Good(<<"A">>)},
                     !.tracks = {NetErr, Good(<<"t1">>)}]

\* playing and queueing from either list, over lists of every size and a
\* service whose commands and searches may fail
Playing ==
    [OneTrack EXCEPT !.keys = {Key("Enter"), Key("Down"), Key("Tab"), Char("s", FALSE),
                               Char("+", FALSE)},
                     !.tracks = {Good(b) : b \in TrackBodies},
                     !.search = {NetErr} \cup {Good(b) : b \in ResultBodies},
                     !.cmd = {NetErr, Good(<<>>)}]

\* the playback-controls popup over a player that is polled
Controlling ==
    [OneTrack EXCEPT !.keys = {Char(" ", FALSE), Key("Down"), Key("Up"), Key("Enter"),
                               Key("Esc"), Char("n", TRUE), Char("p", TRUE)},
                     !.timers = {"update"},
                     !.cmd = {NetErr, Good(<<>>)},
                     !.playing = {NetErr, Good(<<>>)} \cup {Good(<<b>>) : b \in PlayingBodies}]

Next == Run(Keyboard)
Spec == Init /\ [][Next]_vars

\* the loop of run goes on: a tick that can be drawn is drawn, and the quit test
\* that follows it is made
FairSpec == Spec /\ WF_vars(Draw) /\ WF_vars(QuitCheck)

SpecBrowsing == Init /\ [][Run(Browsing)]_vars

SpecTyping == Init /\ [][Run(Typing)]_vars

SpecStarting == Init /\ [][Run(Starting)]_vars

SpecPlaying == Init /\ [][Run(Playing)]_vars

SpecControlling == Init /\ [][Run(Controlling)]_vars

SpecTicking == Init /\ [][Run(Ticking)]_vars

(***************************************************************************)
(* Several tasks on one SpotifyClient.  Each method is cut at its awaits:  *)
(* a `lock().await` completes only while the Mutex is free, and a guard is *)
(* released where it goes out of scope (the method's return, `?` or panic).*)
(***************************************************************************)
Methods == {"refresh_access_token", "search_tracks", "authenticate"}

\* the state of App::run, which the tasks leave alone
run_vars == <<app, pc, last_update, last_refreshed, key, calls, searches, auth>>

\* the first await of each method
Entry(method) ==
    CASE method = "refresh_access_token" -> "refresh:lock_refresh_token"
      [] method = "search_tracks" -> "search:lock_access_token"
      [] OTHER -> "authenticate:exchange"

\* answers of the token endpoint to a refresh, each with a new access token
RotatingRefreshResps == {NetErr, Status(400), Malformed} \cup
    {Good(TokenBody(at, rt)) : at \in {"at1", "at2"}, rt \in {None, Some("rt1")}}

Moved(t, pos, token, resp) == [tasks EXCEPT ![t] = [Idle EXCEPT !.pc = pos, !.token = token, !.resp = resp]]
Returned(t, ret) == [tasks EXCEPT ![t] = [Idle EXCEPT !.ret = Some(ret)]]

Free(mutex) == locks[mutex] = None
Holding(t, held) == [m \in DOMAIN locks |-> IF m \in held THEN Some(t) ELSE IF locks[m] = Some(t) THEN None ELSE locks[m]]

\* a task calls one of the client's methods
Invoke(t) ==
    /\ tasks[t].pc = "idle"
    /\ \E method \in Methods : tasks' = Moved(t, Entry(method), None, None)
    /\ UNCHANGED <<client, locks>>
    /\ UNCHANGED run_vars

\* refresh_access_token without the wait for the refresh-token Mutex
RefreshLocksUnguarded(t) ==
    /\ tasks[t].pc = "refresh:lock_refresh_token"
    /\ client.refresh_token /= None
    /\ locks' = [locks EXCEPT !.refresh_token = Some(t)]
    /\ tasks' = Moved(t, "refresh:send", client.refresh_token, None)
    /\ UNCHANGED client
    /\ UNCHANGED run_vars

\* `let mut refresh_token = self.refresh_token.lock().await;
\*  let refresh_token_value = refresh_token.clone().unwrap();` and the request
\* is sent; the unwrap of None panics, which drops the guard
RefreshLocks(t) ==
    /\ tasks[t].pc = "refresh:lock_refresh_token"
    /\ Free("refresh_token")
    /\ IF client.refresh_token = None
       THEN /\ tasks' = Moved(t, "panicked", None, None)
            /\ UNCHANGED locks
       ELSE /\ locks' = Holding(t, {"refresh_token"})
            /\ tasks' = Moved(t, "refresh:send", client.refresh_token, None)
    /\ UNCHANGED client
    /\ UNCHANGED run_vars

\* `.send().await`, the status test and `.json().await` of the refresh: a
\* failure returns, dropping the guard
RefreshResponse(t) ==
    /\ tasks[t].pc = "refresh:send"
    /\ \E r \in RotatingRefreshResps :
          IF refresh_access_token(client, r).ret.ok
          THEN /\ tasks' = Moved(t, "refresh:lock_access_token", tasks[t].token, Some(r))
               /\ UNCHANGED locks
          ELSE /\ tasks' = Returned(t, "Err")
               /\ locks' = Holding(t, {})
    /\ UNCHANGED client
    /\ UNCHANGED run_vars

\* `let mut access_token = self.access_token.lock().await;` and the two
\* assignments; both guards drop at the return
RefreshStores(t) ==
    /\ tasks[t].pc = "refresh:lock_access_token"
    /\ Free("access_token")
    /\ client' = refresh_access_token(client, Unwrap(tasks[t].resp)).client
    /\ locks' = Holding(t, {})
    /\ tasks' = Returned(t, "Ok")
    /\ UNCHANGED run_vars

\* `let access_token = self.access_token.lock().await;` of search_tracks, the
\* read of the token, and the request is sent with the guard still held
SearchLocks(t) ==
    /\ tasks[t].pc = "search:lock_access_token"
    /\ Free("access_token")
    /\ IF ~Authenticated(client)
       THEN /\ tasks' = Returned(t, "Err")
            /\ UNCHANGED locks
       ELSE /\ locks' = Holding(t, {"access_token"})
            /\ tasks' = Moved(t, "search:send", client.access_token, None)
    /\ UNCHANGED client
    /\ UNCHANGED run_vars

\* `.send().await` and `.json().await` of search_tracks; the guard drops at
\* the return, whatever the answer
SearchResponse(t) ==
    /\ tasks[t].pc = "search:send"
    /\ locks' = Holding(t, {})
    /\ \E r \in {NetErr, Good(<<"r1">>)} :
          tasks' = Returned(t, IF search_tracks(client, r).ok THEN "Ok" ELSE "Err")
    /\ UNCHANGED client
    /\ UNCHANGED run_vars

\* authenticate up to the token exchange, which holds neither Mutex
AuthExchanges(t) ==
    /\ tasks[t].pc = "authenticate:exchange"
    /\ \E r \in ExchangeResps :
          IF authenticate(client, Redirected, r).ret.ok
          THEN tasks' = Moved(t, "authenticate:lock_access_token", None, Some(r))
          ELSE tasks' = Returned(t, "Err")
    /\ UNCHANGED <<client, locks>>
    /\ UNCHANGED run_vars

\* `let mut access_token = self.access_token.lock().await;
\*  *access_token = Some(token.access_token);`
AuthLocksAccess(t) ==
    /\ tasks[t].pc = "authenticate:lock_access_token"
    /\ Free("access_token")
    /\ locks' = Holding(t, {"access_token"})
    /\ client' = [client EXCEPT !.access_token = Some(Unwrap(tasks[t].resp).body.access_token)]
    /\ tasks' = Moved(t, "authenticate:lock_refresh_token", None, tasks[t].resp)
    /\ UNCHANGED run_vars

\* `let mut refresh_token = self.refresh_token.lock().await;
\*  *refresh_token = token.refresh_token;` and the return
AuthLocksRefresh(t) ==
    /\ tasks[t].pc = "authenticate:lock_refresh_token"
    /\ Free("refresh_token")
    /\ locks' = Holding(t, {})
    /\ client' = [client EXCEPT !.refresh_token = Unwrap(tasks[t].resp).body.refresh_token]
    /\ tasks' = Returned(t, "Ok")
    /\ UNCHANGED run_vars

Step(t) ==
    \/ Invoke(t)
    \/ RefreshLocks(t)
    \/ RefreshResponse(t)
    \/ RefreshStores(t)
    \/ SearchLocks(t)
    \/ SearchResponse(t)
    \/ AuthExchanges(t)
    \/ AuthLocksAccess(t)
    \/ AuthLocksRefresh(t)


SpecTasks == Init /\ [][\E t \in Tasks : Step(t)]_vars

(***************************************************************************)
(* The properties of the program.                                          *)
(***************************************************************************)

\* a key event has just been handled, and it was one of ks
Pressed(ks) == pc = "input" /\ key' \in {Some(k) : k \in ks}

NavigationKeys == {Key("Up"), Key("Down"), Char("p", TRUE), Char("n", TRUE)}

\* a cursor that is set over a list that is not empty is an index of the list
InRange(cursor, list) ==
    (IsSome(cursor) /\ ~IsEmpty(list)) => Unwrap(cursor) \in 0 .. (Len(list) - 1)

\* C1: in every state each of the three list cursors (playlists, tracks, search
\* results) that is set lies in [0, len-1] of its list when the list is not
\* empty, and the handling of Up, Down, Ctrl+P or Ctrl+N leaves unchanged the
\* cursor of a list that is empty.
CursorsStayInRange ==
    /\ [](/\ InRange(app.playlists_state, app.playlists)
          /\ InRange(app.tracks_state, app.current_tracks)
          /\ InRange(app.search_state, app.search_results))
    /\ [][Pressed(NavigationKeys) =>
             /\ IsEmpty(app.playlists) => app'.playlists_state = app.playlists_state
             /\ IsEmpty(app.current_tracks) => app'.tracks_state = app.tracks_state
             /\ IsEmpty(app.search_results) => app'.search_state = app.search_state]_vars

\* Down has moved the cursor of the search results to the last of two results
CursorAtLastResult ==
    /\ key = Some(Key("Down"))
    /\ Len(app.search_results) = 2
    /\ app.search_state = Some(1)
    /\ app.focused_pane = "Tracks"

\* C8: with focus on Playlists, no overlay and no error shown, an Up or Down
\* that moves the playlist cursor moves it by one and issues exactly one
\* get_playlist_tracks, for the id of the playlist now selected; Up on the
\* first row and Down on the last move nothing and issue no call.
PlaylistMoveLoadsItsTracks ==
    [][(/\ Pressed({Key("Up"), Key("Down")})
        /\ app.focused_pane = "Playlists"
        /\ ~app.show_search /\ ~app.show_help /\ ~app.show_playback_controls
        /\ ~IsError(app))
       => LET old == UnwrapOr(app.playlists_state, 0)
              last == Len(app.playlists) - 1
              new == IF key' = Some(Key("Up"))
                     THEN (IF old > 0 THEN old - 1 ELSE old)
                     ELSE (IF old < last THEN old + 1 ELSE old)
          IN  /\ app'.playlists = app.playlists
              /\ IF new = old
                 THEN /\ app'.playlists_state = app.playlists_state
                      /\ calls' = <<>>
                 ELSE /\ app'.playlists_state = Some(new)
                      /\ calls' = <<Call("get_playlist_tracks",
                                         <<At(app.playlists, new)>>)>>]_vars

\* two Downs from the first row of [liked, A, B]: the second has loaded B
SecondDownLoadedB ==
    /\ key = Some(Key("Down"))
    /\ app.playlists = <<"liked", "A", "B">>
    /\ app.playlists_state = Some(2)
    /\ calls = <<Call("get_playlist_tracks", <<"B">>)>>

EmptyQueryClearsAndCancels ==
    /\ [](IsEmpty(app.search_input)
             => IsEmpty(app.search_results) /\ app.last_search_time = None)
    /\ [][("search_tracks" \in Ops(calls')) => ~IsEmpty(app.search_input)]_vars
    /\ [][(Pressed({Key("Backspace")}) /\ app.focused_pane = "SearchInput"
           /\ ~IsError(app) /\ Len(app.search_input) <= 1)
          => /\ IsEmpty(app'.search_input)
             /\ IsEmpty(app'.search_results)
             /\ app'.last_search_time = None
             /\ calls' = <<>>]_vars

\* Backspace has emptied the query of an open search box
BackspaceEmptiedQuery ==
    /\ key = Some(Key("Backspace"))
    /\ app.show_search
    /\ app.focused_pane = "SearchInput"
    /\ IsEmpty(app.search_input)
    /\ IsEmpty(app.search_results)
    /\ app.last_search_time = None

\* the fields of the App other than the phase; of the debounce timer, whether
\* it is pending (the time it has run grows while the key is waited for)
Rest(a) == [a EXCEPT !.state = Ready, !.last_search_time = IsSome(@)]

\* C4: a key event of any kind handled in the Error phase sets the phase to
\* Ready and changes nothing else (focus, overlay flags, query, results,
\* selections, the pending search timer, should_quit), issues no remote call
\* and leaves the client as it is.
KeyInErrorOnlyDismisses ==
    [][(pc = "input" /\ IsSome(key') /\ IsError(app))
       => /\ app'.state = Ready
          /\ Rest(app') = Rest(app)
          /\ calls' = <<>>
          /\ client' = client
          /\ pc' = "draw"]_vars

\* "q" was pressed with no overlay shown and the program does not quit: the
\* key has dismissed an error
QuitKeyDismissedError ==
    /\ key = Some(Char("q", FALSE))
    /\ app.state = Ready
    /\ ~app.should_quit
    /\ ~app.show_help /\ ~app.show_playback_controls /\ ~app.show_search

\* C5 (as amended): in every state focus on SearchInput implies that the
\* search overlay is shown; and a Tab handled with focus on Playlists, when no
\* error is shown and neither the Help nor the playback-controls overlay is
\* visible, leaves the focus on Tracks.
SearchFocusInOverlayAndTabFromPlaylists ==
    /\ [](app.focused_pane = "SearchInput" => app.show_search)
    /\ [][(Pressed({Key("Tab")}) /\ app.focused_pane = "Playlists"
           /\ ~IsError(app) /\ ~app.show_help /\ ~app.show_playback_controls)
          => app'.focused_pane = "Tracks"]_vars

\* Tab has moved the focus to Tracks in the main view
TabReachedTracks ==
    /\ key = Some(Key("Tab"))
    /\ app.focused_pane = "Tracks"
    /\ app.state = Ready
    /\ ~app.show_help /\ ~app.show_playback_controls /\ ~app.show_search

\* C5 as stated: focus on SearchInput implies the search overlay, and from
\* focus on Playlists a single Tab always yields focus on Tracks.
TabFromPlaylistsAlwaysTracks ==
    /\ [](app.focused_pane = "SearchInput" => app.show_search)
    /\ [][(Pressed({Key("Tab")}) /\ app.focused_pane = "Playlists")
          => app'.focused_pane = "Tracks"]_vars

\* C6: a Tab handled when no error is shown and neither the Help nor the
\* playback-controls overlay is visible moves the focus from Playlists to
\* Tracks, from Tracks to SearchInput if the search overlay is visible and to
\* Playlists otherwise, and from SearchInput to Playlists.
TabCyclesFocus ==
    [][(Pressed({Key("Tab")})
        /\ ~IsError(app) /\ ~app.show_help /\ ~app.show_playback_controls)
       => app'.focused_pane =
             CASE app.focused_pane = "Playlists" -> "Tracks"
               [] app.focused_pane = "Tracks" ->
                     IF app.show_search THEN "SearchInput" ELSE "Playlists"
               [] app.focused_pane = "SearchInput" -> "Playlists"]_vars

\* C7: an Enter handled with focus on SearchInput (no error shown) moves the
\* focus to Tracks and sets the result selection to index 0 when the results
\* are not empty, and leaves focus and selection unchanged when they are empty.
EnterSelectsFirstResult ==
    [][(Pressed({Key("Enter")}) /\ app.focused_pane = "SearchInput" /\ ~IsError(app))
       => IF ~IsEmpty(app.search_results)
          THEN app'.focused_pane = "Tracks" /\ app'.search_state = Some(0)
          ELSE /\ app'.focused_pane = app.focused_pane
               /\ app'.search_state = app.search_state]_vars

\* the debounced search is due
SearchDue ==
    /\ IsSome(app.last_search_time)
    /\ Unwrap(app.last_search_time) >= search_debounce_ms
    /\ ~IsEmpty(app.search_input)

\* C9: a tick draws first (changing nothing), then tests should_quit, then
\* makes the poll check, the refresh check and the debounce check in this
\* order, each performing its work when it is due, and then reads at most one
\* input event before the next tick draws; so whenever an input event is about
\* to be read, no poll, refresh or debounced search is due: what fell due has
\* been performed in the tick that followed, whatever keys are pressed.
TickOrderNeverStarves ==
    /\ [][/\ pc = "draw" => (pc' = "quit_check" /\ app' = app /\ client' = client)
          /\ pc = "quit_check" => pc' = (IF app.should_quit THEN "quit" ELSE "update")
          /\ pc = "update" =>
                /\ pc' = "refresh"
                /\ last_update >= PollDue =>
                      /\ calls' = <<Call("get_currently_playing", <<>>),
                                    Call("get_queue", <<>>)>>
                      /\ last_update' = 0
          /\ pc = "refresh" =>
                /\ pc' \in {"search", "failed", "panicked"}
                /\ last_refreshed >= RefreshDue =>
                      \/ calls' = <<Call("refresh_access_token", <<>>)>>
                      \/ pc' = "panicked"
                /\ pc' = "search" => last_refreshed' = 0 \/ last_refreshed < RefreshDue
          /\ pc = "search" =>
                /\ pc' = "input"
                /\ SearchDue => calls' = <<Call("search_tracks", app.search_input)>>
          /\ pc = "input" => pc' \in {"draw", "failed"}]_vars
    /\ [](pc = "input" =>
             /\ last_update < PollDue
             /\ last_refreshed < RefreshDue
             /\ ~SearchDue)

\* a tick in which the poll, the refresh and the debounced search were all due
\* has performed the three and is about to read an input event
TickPerformedAllThree ==
    /\ pc = "input"
    /\ calls = <<Call("search_tracks", <<"a">>)>>
    /\ last_update = 0 /\ IsSome(app.currently_playing)
    /\ last_refreshed = 0 /\ client.access_token = Some("at1")

\* C10: a successful token refresh leaves the stored refresh token as it was
\* before the refresh when the response carries none (and stores the one the
\* response carries otherwise): the store still holds a refresh token.
RefreshRetainsRefreshToken ==
    [][(pc = "refresh" /\ calls' = <<Call("refresh_access_token", <<>>)>>
        /\ pc' = "search")
       => \/ client'.refresh_token = client.refresh_token
          \/ client'.refresh_token = Some("rt1")]_vars

\* the positions of run after its two startup calls
LoopPcs == {"draw", "quit_check", "update", "refresh", "search", "input"}

\* the periodic refresh has just been attempted and has failed
RefreshFailed ==
    /\ pc = "refresh"
    /\ calls' = <<Call("refresh_access_token", <<>>)>>
    /\ IsError(app')

\* C11: an access token once stored is never absent again: no step sets it to
\* none, it is present wherever run stands after authentication, and a
\* refresh that fails (or panics) leaves the token store as it was.
AccessTokenNeverAbsentAgain ==
    /\ [][IsSome(client.access_token) => IsSome(client'.access_token)]_vars
    /\ [](pc \in LoopPcs \cup {"load_playlists", "quit"} => IsSome(client.access_token))
    /\ [][(RefreshFailed \/ (pc = "refresh" /\ pc' = "panicked")) => client' = client]_vars

\* a refresh has failed after an earlier one succeeded: the access token of the
\* earlier one is still stored
FailedRefreshKeptToken ==
    /\ pc = "failed"
    /\ calls = <<Call("refresh_access_token", <<>>)>>
    /\ IsError(app)
    /\ client.access_token = Some("at1")

\* C12: when the periodic token refresh fails, the phase becomes Error and the
\* event loop goes on to its next step (the debounce check), so that the
\* session keeps running.
RefreshFailureKeepsRunning ==
    [][RefreshFailed => pc' = "search"]_vars

\* the player commands a key event may issue
PlayerCommands == {"play_track", "add_to_queue", "pause_playback", "resume_playback",
                   "next_track", "previous_track"}

\* whatever key is pressed next, if it issues a player command and the service
\* fails the command (m) or the device lookup before a play (d), the handler
\* leaves the phase Error
KeyCommandFailureSurfaces ==
    (pc = "input" /\ ~IsError(app)) =>
       \A k \in AllKeys, m \in CmdResps, d \in DevResps :
          LET e == [CalmEnv EXCEPT !.cmd = m, !.dev = d]
              h == handle_key_event(app, client, k, e)
              ops == Ops(h.calls) \cap PlayerCommands
          IN  (\/ ops /= {} /\ m.kind /= "ok"
               \/ "play_track" \in ops /\ ~play_track(client, d, m).ok)
              => IsError(h.app)

\* when the debounced search is due, if the service fails the search the
\* debounce check leaves the phase Error
SearchFailureSurfaces ==
    (pc = "search" /\ SearchDue) =>
       \A r \in SearchResps :
          ~search_tracks(client, r).ok
             => IsError(check_pending_search(app, client,
                                             [CalmEnv EXCEPT !.search = r]).app)

\* C14: every failure of a remote call issued by an explicit user action
\* (play, enqueue, pause / resume, next, previous; the debounced search) sets
\* the phase to Error.
UserActionFailuresSurface ==
    KeyCommandFailureSurfaces /\ SearchFailureSurfaces

\* C15: when the periodic poll is due, whatever failure the service answers
\* get_currently_playing or get_queue with (no response, a non-2xx status, a
\* body that does not deserialize), the poll leaves the phase as it was and
\* the now-playing data, respectively the queue data, as it was.
PollFailureKeepsStaleData ==
    (pc = "update" /\ last_update >= PollDue) =>
       \A p \in PlayingResps \cup {Malformed}, q \in QueueResps \cup {Malformed} :
          LET e == [CalmEnv EXCEPT !.playing = p, !.queue = q]
              h == update_queue(
                      update_currently_playing(Done(app, <<>>, "Ok"), client, e),
                      client, e)
          IN  /\ h.app.state = app.state
              /\ p.kind /= "ok" => h.app.currently_playing = app.currently_playing
              /\ q.kind /= "ok" => h.app.queue = app.queue

\* the same for the failures in which no response with a status arrives: the
\* request is not sent or not answered, or the body does not deserialize
PollErrorKeepsStaleData ==
    (pc = "update" /\ last_update >= PollDue) =>
       \A p \in {NetErr, Malformed}, q \in {NetErr, Malformed} :
          LET e == [CalmEnv EXCEPT !.playing = p, !.queue = q]
              h == update_queue(
                      update_currently_playing(Done(app, <<>>, "Ok"), client, e),
                      client, e)
          IN  h.app = app

\* C13: when the startup authentication or the initial playlist load fails and
\* leaves the phase Error, run goes on to its event loop, where the error is
\* drawn and the session is available until a key dismisses it.
StartupFailureShowsError ==
    [][(pc \in {"authenticate", "load_playlists"} /\ IsError(app')) => pc' = "draw"]_vars

\* the listener of the authorization attempt was bound and has listened
Listened == auth.cause \in {"timeout", "write_err", "code"}

\* the request read from a connection nowhere holds the piece "code"
NoCode(cn) == \A i \in 1..Len(RequestOf(cn)) : RequestOf(cn)[i] /= "code"

\* the connection sends the request line of a redirect (GET /callback?... or
\* GET /?...) with a code parameter
Matching(cn) ==
    cn.kind = "callback" /\ \E p \in 1..Len(cn.params) : cn.params[p][1] = "code"

\* C16: if none of the requests that reach the listener within the 60 s holds a
\* code, the listener times out; and when it times out authenticate has
\* failed with the callback error, no token exchange was made and the token
\* store is as SpotifyClient::new left it.
TimeoutFailsWithoutExchange ==
    /\ (Listened /\ \A i \in 1..Len(auth.conns) : NoCode(auth.conns[i]))
          => auth.cause = "timeout"
    /\ auth.cause = "timeout" =>
          /\ pc = "failed"
          /\ app.state = Error("Authentication callback failed - manual entry required")
          /\ calls = <<>>
          /\ client = NewClient

\* two requests without a code arrived, one of them a redirect that reports the
\* user's refusal, and the attempt has timed out
TimedOutAfterRefusal ==
    /\ auth.cause = "timeout"
    /\ auth.conns = <<Raw(<<"GET /favicon.ico", " ", "HTTP/1.1">>),
                      Callback(Patterns[1], <<<<"error", "access_denied">>,
                                              <<"state", "xyz">>>>)>>
    /\ auth.sent = <<"none", "none">>
    /\ pc = "failed"

\* C17: whatever connections precede it, the first connection that sends a
\* redirect with a code is accepted (nothing was written to those before it,
\* and the listener returns its code unless the response cannot be written);
\* and when no connection sends one, nothing is written to any and the
\* listener times out.
ListenerKeepsAccepting ==
    Listened =>
       /\ \A i \in 1..Len(auth.conns) :
             (Matching(auth.conns[i]) /\ \A j \in 1..(i - 1) : ~Matching(auth.conns[j]))
                => /\ Len(auth.sent) = i
                   /\ \A j \in 1..(i - 1) : auth.sent[j] = "none"
                   /\ auth.cause \in {"code", "write_err"}
       /\ (\A i \in 1..Len(auth.conns) : ~Matching(auth.conns[i]))
             => /\ auth.cause = "timeout"
                /\ \A j \in 1..Len(auth.sent) : auth.sent[j] = "none"

FailurePhase(cb, r) == App_authenticate(NewApp, NewClient, cb, r).app.state

\* C19: the error of an authentication that failed because the listener's port
\* could not be bound differs from the error of one that timed out, and both
\* differ from the errors of a failed token exchange.
AuthErrorsDistinct ==
    (pc = "failed" /\ auth.cause = "bind_err") =>
       /\ app.state /= FailurePhase(Attempt(TRUE, TRUE, <<>>, TRUE), NetErr)
       /\ \A r \in {NetErr, Malformed} :
             /\ app.state /= FailurePhase(Redirected, r)
             /\ FailurePhase(Attempt(TRUE, TRUE, <<>>, TRUE), r) /= FailurePhase(Redirected, r)

\* the task's refresh request is sent and its response not yet applied
Refreshing(t) == tasks[t].pc \in {"refresh:send", "refresh:lock_access_token"}

\* C20: of the tasks that have invoked refresh_access_token, at most one at a
\* time is between sending its request and applying the response to the
\* store; and a search_tracks call sends the token it read from the store as
\* it began, which is still the stored one while its request is in flight.
OneRefreshAtATime ==
    /\ [](\A t, u \in Tasks : (Refreshing(t) /\ Refreshing(u)) => t = u)
    /\ [](\A t \in Tasks : tasks[t].pc = "search:send" => tasks[t].token = client.access_token)
    /\ [][\A t \in Tasks :
            (tasks[t].pc = "search:lock_access_token" /\ tasks'[t].pc = "search:send")
               => tasks'[t].token = client.access_token]_vars

\* a second task has invoked refresh_access_token while the first one's
\* request, made after an earlier refresh was stored, is in flight
SecondRefreshWaits ==
    /\ tasks[1].pc = "refresh:send"
    /\ tasks[2].pc = "refresh:lock_refresh_token"
    /\ client.access_token = Some("at2")
    /\ tasks[1].token = Some("rt1")

\* C21: an ordinary API call (here search_tracks, whose locking the other ten
\* methods share) does not hold the access-token Mutex while its request is
\* in flight, so that neither another call nor a refresh waits for the
\* request.
RequestsSentWithoutTokenLock ==
    \A t \in Tasks : tasks[t].pc = "search:send" => locks.access_token /= Some(t)

\* the key is handled by the panes or by the search overlay: the phase is not
\* Error and neither the Help nor the playback-controls overlay is visible
Unobstructed(a) == ~IsError(a) /\ ~a.show_help /\ ~a.show_playback_controls

\* C22: 's' pressed while no overlay is visible and the phase is not Error
\* shows the search overlay, sets the focus to SearchInput and leaves both the
\* query and the results list empty, whatever pane had the focus.
SearchKeyOpensEmptyOverlay ==
    [][(Pressed({Char("s", ctrl) : ctrl \in BOOLEAN}) /\ Unobstructed(app)
        /\ ~app.show_search)
          => /\ app'.show_search
             /\ app'.focused_pane = "SearchInput"
             /\ app'.search_input = <<>>
             /\ app'.search_results = <<>>]_vars

\* 's' has opened the search overlay again, after an earlier session in which a
\* search had answered
SearchReopenedEmpty ==
    /\ key = Some(Char("s", FALSE))
    /\ pc = "draw"
    /\ app.show_search /\ app.focused_pane = "SearchInput"
    /\ IsEmpty(app.search_input) /\ IsEmpty(app.search_results)
    /\ app.search_state = None
    /\ app.state = Ready

\* C23: Esc pressed while the search overlay is visible (and the key reaches it:
\* the phase is not Error, no other overlay is up) hides the overlay, empties
\* the query and the results, sets the focus to Playlists and clears the
\* pending debounce timestamp; no timestamp is pending while the overlay is
\* closed, and check_pending_search issues no search then.
EscClosesSearchAndCancels ==
    /\ [][(Pressed({Key("Esc")}) /\ Unobstructed(app) /\ app.show_search)
            => /\ ~app'.show_search
               /\ app'.search_input = <<>>
               /\ app'.search_results = <<>>
               /\ app'.focused_pane = "Playlists"
               /\ app'.last_search_time = None]_vars
    /\ [](~app.show_search => app.last_search_time = None)
    /\ [][(pc = "search" /\ ~app.show_search) => calls' = <<>>]_vars

\* Esc has just closed the search overlay, in which no search had answered
EscClosedSearch ==
    /\ key = Some(Key("Esc"))
    /\ pc = "draw"
    /\ searches = 0 /\ app.search_state = Some(0)
    /\ ~app.show_search /\ app.focused_pane = "Playlists"
    /\ IsEmpty(app.search_input) /\ IsEmpty(app.search_results)
    /\ app.last_search_time = None
    /\ app.state = Ready

\* the cursor of the list the Tracks pane displays
DisplayCursor(a) == IF a.show_search THEN a.search_state ELSE a.tracks_state

\* the cursor selects an item of the displayed list
Selected(a) ==
    IsSome(DisplayCursor(a)) /\ Unwrap(DisplayCursor(a)) < Len(get_display_tracks(a))

\* the item it selects
SelectedTrack(a) == At(get_display_tracks(a), Unwrap(DisplayCursor(a)))

\* C24: Enter pressed with the focus on Tracks (the key reaching the panes: phase
\* not Error, neither Help nor the playback popup up) issues one play_track,
\* for the selected search result when the search overlay is visible and for
\* the selected track of the active playlist otherwise, and only when the
\* cursor is set and within the list; nothing of the session changes but,
\* when the call fails, the phase, which becomes Error with the call's message.
EnterPlaysSelection ==
    /\ [][(Pressed({Key("Enter")}) /\ Unobstructed(app) /\ app.focused_pane = "Tracks")
            => /\ calls' = IF Selected(app)
                           THEN <<Call("play_track", <<SelectedTrack(app)>>)>>
                           ELSE <<>>
               /\ Rest(app') = Rest(app)
               /\ IsError(app') => Selected(app)
               /\ pc' = "draw"]_vars
    /\ []((pc = "input" /\ Unobstructed(app) /\ app.focused_pane = "Tracks" /\ Selected(app))
            => \A d \in DevResps, m \in CmdResps :
                  handle_key_event(app, client, Key("Enter"),
                                   [CalmEnv EXCEPT !.dev = d, !.cmd = m]).app
                     = IF play_track(client, d, m).ok THEN app
                       ELSE [app EXCEPT !.state = Error(play_track(client, d, m).err)])

\* Enter on the second search result has issued play_track for it, and the
\* call has failed
PlayOfSecondResultFailed ==
    /\ key = Some(Key("Enter"))
    /\ calls = <<Call("play_track", <<"r2">>)>>
    /\ app.show_search /\ app.focused_pane = "Tracks"
    /\ app.search_state = Some(1)
    /\ app.state = Error("Failed to play track")

\* C25: '+' pressed with the focus on Tracks (the key reaching the panes or the
\* search overlay) calls add_to_queue for the item that the cursor of the
\* displayed list selects (the search results and their cursor when the
\* overlay is visible, the active playlist's tracks and theirs otherwise); when
\* the call succeeds get_queue follows within the same key event, when it
\* fails the phase becomes Error; with no selection within the list, or with
\* the focus elsewhere, no call is made and nothing changes.
PlusQueuesSelection ==
    /\ [][(Pressed({Char("+", ctrl) : ctrl \in BOOLEAN}) /\ Unobstructed(app))
            => IF app.focused_pane = "Tracks" /\ Selected(app)
               THEN \/ /\ calls' = <<Call("add_to_queue", <<SelectedTrack(app)>>),
                                     Call("get_queue", <<>>)>>
                       /\ ~IsError(app')
                    \/ /\ calls' = <<Call("add_to_queue", <<SelectedTrack(app)>>)>>
                       /\ IsError(app')
               ELSE /\ calls' = <<>>
                    /\ Rest(app') = Rest(app)
                    /\ app'.state = app.state]_vars
    /\ []((pc = "input" /\ Unobstructed(app) /\ app.focused_pane = "Tracks" /\ Selected(app))
            => \A m \in CmdResps, q \in QueueResps :
                  handle_key_event(app, client, Char("+", FALSE),
                                   [CalmEnv EXCEPT !.cmd = m, !.queue = q]).app
                     = IF ~add_to_queue(client, m).ok
                       THEN [app EXCEPT !.state = Error(add_to_queue(client, m).err)]
                       ELSE IF get_queue(client, q).ok
                       THEN [app EXCEPT !.queue = get_queue(client, q).val]
                       ELSE app)

\* '+' has queued the second search result, the playlist's cursor being on its
\* first track, and the queue has been pulled again
SecondResultQueued ==
    /\ key = Some(Char("+", FALSE))
    /\ calls = <<Call("add_to_queue", <<"r2">>), Call("get_queue", <<>>)>>
    /\ app.show_search /\ app.focused_pane = "Tracks"
    /\ app.search_state = Some(1) /\ app.tracks_state = Some(0)
    /\ IsSome(app.queue)
    /\ app.state = Ready

\* what of the session lies under the Help and playback-controls overlays
Underneath(a) ==
    <<a.focused_pane, a.playlists_state, a.tracks_state, a.search_state,
      a.search_input, a.search_results, a.show_search, a.should_quit>>

HelpKeys == {Key("Esc")} \cup {Char("?", ctrl) : ctrl \in BOOLEAN}
PopupKeys == {Key("Esc"), Key("Up"), Key("Down"), Key("Enter"), Char("p", TRUE),
              Char("n", TRUE)}

\* C26: while the Help overlay or the playback-controls overlay is visible, no
\* key event changes the focused pane, the playlists, tracks or results
\* cursor, the query, the results, the search-overlay flag or should_quit; a
\* key that is not one of the visible overlay's own changes nothing at all
\* and issues no call.
OverlaysAreModal ==
    [][(Pressed(AllKeys) /\ (app.show_help \/ app.show_playback_controls))
         => /\ Underneath(app') = Underneath(app)
            /\ (app.show_help /\ key' \notin {Some(k) : k \in HelpKeys})
                  => (Rest(app') = Rest(app) /\ calls' = <<>>)
            /\ (app.show_playback_controls /\ key' \notin {Some(k) : k \in PopupKeys})
                  => (Rest(app') = Rest(app) /\ calls' = <<>>)]_vars

\* 'q' has been pressed under the Help overlay, which is still up
QuitKeyUnderHelp ==
    /\ key = Some(Char("q", FALSE))
    /\ app.show_help
    /\ ~app.should_quit
    /\ app.state = Ready
    /\ pc = "draw"

\* the last known is_playing, false when nothing is known
KnownPlaying(a) == IsSome(a.currently_playing) /\ Unwrap(a.currently_playing).is_playing

\* the remote call of each entry of the playback-controls popup
PopupCommand(a) ==
    CASE a.playback_controls_state = Some(0) ->
            IF KnownPlaying(a) THEN "pause_playback" ELSE "resume_playback"
      [] a.playback_controls_state = Some(1) -> "previous_track"
      [] a.playback_controls_state = Some(2) -> "next_track"

\* C27: the cursor of the playback-controls popup is always one of 0..3, and is
\* 0 whenever Space has just opened the popup; Enter in the popup (the phase
\* not being Error) calls pause at entry 0 when the last known is_playing is
\* true and resume otherwise, also when nothing is known, previous at entry 1
\* and next at entry 2, the popup staying up, and at entry 3 closes the popup
\* without a call.
PlaybackPopupEntries ==
    /\ [](app.playback_controls_state \in {Some(i) : i \in 0..PlaybackMenuLast})
    /\ [][(Pressed({Char(" ", ctrl) : ctrl \in BOOLEAN}) /\ Unobstructed(app)
           /\ ~app.show_search)
            => /\ app'.show_playback_controls
               /\ app'.playback_controls_state = Some(0)]_vars
    /\ [][(Pressed({Key("Enter")}) /\ ~IsError(app) /\ ~app.show_help
           /\ app.show_playback_controls)
            => IF app.playback_controls_state = Some(PlaybackMenuLast)
               THEN ~app'.show_playback_controls /\ calls' = <<>>
               ELSE /\ app'.show_playback_controls
                    /\ calls' = <<Call(PopupCommand(app), <<>>)>>]_vars

\* Enter on the first entry has paused a player last known to be playing
PausedFromPopup ==
    /\ key = Some(Key("Enter"))
    /\ calls = <<Call("pause_playback", <<>>)>>
    /\ KnownPlaying(app)
    /\ app.show_playback_controls
    /\ app.playback_controls_state = Some(0)
    /\ app.state = Ready

\* C28: when the debounce fires (the timestamp is due and the query not empty),
\* one search is issued and the pending timestamp is cleared whether it
\* succeeds or fails; on success the results list is replaced by the answer
\* and the results cursor unset, on failure the results list and the cursor
\* stay as they were; nothing else of the session changes.
DebounceFiringClearsTimer ==
    /\ [][(pc = "search" /\ SearchDue)
            => /\ app'.last_search_time = None
               /\ calls' = <<Call("search_tracks", app.search_input)>>
               /\ \/ app' = [app EXCEPT !.last_search_time = None]
                  \/ app' = [app EXCEPT !.last_search_time = None,
                                        !.search_results = app'.search_results,
                                        !.search_state = None]]_vars
    /\ []((pc = "search" /\ SearchDue)
            => \A r \in SearchResps :
                  check_pending_search(app, client, [CalmEnv EXCEPT !.search = r]).app
                     = IF search_tracks(client, r).ok
                       THEN [app EXCEPT !.last_search_time = None,
                                        !.search_results = search_tracks(client, r).val,
                                        !.search_state = None]
                       ELSE [app EXCEPT !.last_search_time = None])

\* a search has failed: the two results of the search before it and the
\* cursor on the second of them are still there, and no timestamp is pending
FailedSearchKeptResults ==
    /\ pc = "input"
    /\ Len(calls) = 1 /\ calls[1].op = "search_tracks"
    /\ app.last_search_time = None
    /\ app.search_results = <<"r1", "r2">>
    /\ app.search_state = Some(1)

\* C29: in every state an empty query has no debounce timestamp pending; the
\* pending timestamp is an Option, so there is at most one; and every key
\* event that edits the query leaves a timestamp taken at the edit in place
\* of whatever was pending, or none when the edit has emptied the query.
EmptyQueryHasNoTimer ==
    /\ [](IsEmpty(app.search_input) => app.last_search_time = None)
    /\ [](Len(app.last_search_time) <= 1)
    /\ [][(Pressed(AllKeys) /\ app'.search_input /= app.search_input)
            => app'.last_search_time = IF IsEmpty(app'.search_input) THEN None
                                       ELSE Some(0)]_vars

\* a second character has been typed before the search of the first was due,
\* and the timestamp is that of the second
SecondEditRestartedTimer ==
    /\ key = Some(Char("a", FALSE))
    /\ pc = "draw"
    /\ app.search_input = <<"a", "a">>
    /\ app.last_search_time = Some(0)
    /\ IsEmpty(app.search_results)
    /\ searches = 0

QuitKeys == {Char("q", ctrl) : ctrl \in BOOLEAN}

\* C30: 'q' sets should_quit when no overlay is visible and the phase is not
\* Error, and no key event sets it otherwise ('q' under an overlay or in the
\* Error phase leaves it unset); once it is set the loop is at the drawing of
\* the next tick or at the quit test after it, it polls the player, refreshes
\* the token, searches and reads input no more, and it terminates.
QuitEndsLoopAfterDraw ==
    /\ [][(Pressed(QuitKeys) /\ Unobstructed(app) /\ ~app.show_search)
            => app'.should_quit]_vars
    /\ [][(~app.should_quit /\ app'.should_quit)
            => (Pressed(QuitKeys) /\ Unobstructed(app) /\ ~app.show_search)]_vars
    /\ [](app.should_quit => pc \in {"draw", "quit_check", "quit"})
    /\ [][app.should_quit
            => /\ calls' = <<>>
               /\ UNCHANGED <<app, client, last_update, last_refreshed, searches>>]_vars
    /\ (app.should_quit ~> pc = "quit")

\* run has returned after 'q', pressed after a search session in which a
\* search had answered
QuitAfterSession ==
    /\ pc = "quit"
    /\ app.should_quit
    /\ app.state = Ready
    /\ app.search_state = None
    /\ calls = <<>>

\* C31: while the search overlay is visible with the focus on SearchInput (and
\* the key reaches it), every character key pressed without Control, '+'
\* included, is appended to the query and arms the debounce timer anew.
EveryCharacterIsTyped ==
    [][(Pressed({Char(ch, FALSE) : ch \in Chars}) /\ Unobstructed(app) /\ app.show_search
        /\ app.focused_pane = "SearchInput")
         => /\ app'.search_input = Append(app.search_input, Unwrap(key').ch)
            /\ app'.last_search_time = Some(0)]_vars

\* C32: when the get_playlist_tracks that a move of the playlist cursor issues
\* fails, the key handler returns normally with the phase set to Error, and
\* run stays in its loop.
PlaylistLoadFailureSurfaces ==
    /\ [][(Pressed(NavigationKeys) /\ "get_playlist_tracks" \in Ops(calls'))
            => pc' \in LoopPcs]_vars
    /\ [](pc = "input"
            => \A k \in NavigationKeys, r \in {NetErr, Malformed} :
                  "get_playlist_tracks" \in
                        Ops(handle_key_event(app, client, k,
                                             [CalmEnv EXCEPT !.tracks = r]).calls)
                     => /\ handle_key_event(app, client, k,
                                            [CalmEnv EXCEPT !.tracks = r]).ret = "Ok"
                        /\ IsError(handle_key_event(app, client, k,
                                                    [CalmEnv EXCEPT !.tracks = r]).app))

\* C33: a refresh that falls due while no refresh token is stored returns an
\* error as a value, which run passes on as any failed refresh; the process
\* does not panic, and the token store is left as it was.
RefreshWithoutTokenReturnsError ==
    [][(pc = "refresh" /\ last_refreshed >= RefreshDue /\ client.refresh_token = None)
         => /\ pc' = "failed"
            /\ IsError(app')
            /\ client' = client]_vars

\* C34: the listener returns a code only from a redirect that carries the
\* state of this attempt ("xyz", the one value of the state parameter here):
\* when a token exchange was made, the connection the code came from sent
\* state=xyz.
CodeOnlyWithAttemptState ==
    auth.cause = "code"
       => \E p \in 1..Len(auth.conns[Len(auth.sent)].params) :
             auth.conns[Len(auth.sent)].params[p] = <<"state", "xyz">>

\* how many of the three overlays are visible
OverlaysUp(a) ==
    (IF a.show_help THEN 1 ELSE 0) + (IF a.show_playback_controls THEN 1 ELSE 0)
       + (IF a.show_search THEN 1 ELSE 0)

\* C35: in every state at most one of the Help, playback-controls and search
\* overlays is visible; a step that opens one of them starts from a state in
\* which none is visible.
OneOverlayAtATime ==
    /\ [](OverlaysUp(app) <= 1)
    /\ [][(\/ ~app.show_help /\ app'.show_help
           \/ ~app.show_playback_controls /\ app'.show_playback_controls
           \/ ~app.show_search /\ app'.show_search)
            => (OverlaysUp(app) = 0 /\ OverlaysUp(app') = 1)]_vars

\* '?' pressed in the search box has gone into the query, and Help is not up
QuestionMarkTyped ==
    /\ key = Some(Char("?", FALSE))
    /\ app.show_search /\ ~app.show_help
    /\ app.search_input = <<"?">>
    /\ pc = "draw"

\* C36: while the phase is Error, the periodic poll, the periodic token refresh
\* (whether it succeeds or fails) and the debounced search leave the phase as
\* it is: only a key event changes it.
ErrorStaysUntilKey ==
    [][(IsError(app) /\ pc \in {"update", "refresh", "search"})
         => app'.state = app.state]_vars

\* Enter would now play result i of the search overlay
PlaysResult(a, c, i) ==
    /\ a.show_search /\ a.focused_pane = "Tracks" /\ a.search_state = Some(i)
    /\ handle_key_event(a, c, Key("Enter"), CalmEnv).calls
          = <<Call("play_track", <<At(a.search_results, i)>>)>>

\* some sequence of at most d Enter, Up and Down key events, the service
\* working, leads from a to a state in which Enter plays result i
RECURSIVE CanPlayResult(_, _, _, _)
CanPlayResult(a, c, i, d) ==
    \/ PlaysResult(a, c, i)
    \/ /\ d > 0
       /\ \E k \in {Key("Enter"), Key("Up"), Key("Down")} :
             CanPlayResult(handle_key_event(a, c, k, CalmEnv).app, c, i, d - 1)

\* C37: after a search that has answered with n >= 1 results, every result
\* i < n can be selected with Enter, Up and Down and then played with Enter,
\* the overlay staying open; MaxResults + 1 keys are enough for any of them.
EveryResultCanBePlayed ==
    (/\ pc = "input" /\ Len(calls) = 1 /\ calls[1].op = "search_tracks"
     /\ app.show_search /\ Unobstructed(app) /\ ~IsEmpty(app.search_results))
       => \A i \in 0..(Len(app.search_results) - 1) :
             CanPlayResult(app, client, i, MaxResults + 1)

\* C38: no key event issues more than one play_track, and the Enter that moves
\* the focus from SearchInput to Tracks issues no call at all.
AtMostOnePlayPerKey ==
    /\ [][Pressed(AllKeys)
            => Cardinality({i \in 1..Len(calls') : calls'[i].op = "play_track"}) <= 1]_vars
    /\ [][(Pressed({Key("Enter")}) /\ app.focused_pane = "SearchInput"
           /\ app'.focused_pane = "Tracks")
            => calls' = <<>>]_vars

\* Enter has moved the focus to the two results of a search, none of which is
\* selected, and nothing has been played
EnterFocusedResults ==
    /\ key = Some(Key("Enter"))
    /\ pc = "draw"
    /\ app.show_search /\ app.focused_pane = "Tracks"
    /\ app.search_results = <<"r1", "r2">>
    /\ app.search_state = None
    /\ calls = <<>>

\* C39: authenticate and refresh_access_token take the two token Mutexes in
\* compatible orders: never does one task hold the access-token Mutex and
\* wait for the refresh-token Mutex while another holds the refresh-token
\* Mutex and waits for the access-token Mutex.
LockOrderNeverDeadlocks ==
    ~ \E t, u \in Tasks :
         /\ tasks[t].pc = "authenticate:lock_refresh_token"
         /\ locks.access_token = Some(t)
         /\ tasks[u].pc = "refresh:lock_access_token"
         /\ locks.refresh_token = Some(u)

\* C40: search_tracks is called only by the debounce check, while the search
\* overlay is visible, and with the query, which is then not empty; and while
\* the overlay is hidden no debounce timestamp is pending.
SearchOnlyFromOpenOverlay ==
    /\ [][("search_tracks" \in Ops(calls'))
            => /\ pc = "search"
               /\ app.show_search
               /\ ~IsEmpty(app.search_input)
               /\ calls' = <<Call("search_tracks", app.search_input)>>]_vars
    /\ [](~app.show_search => ~IsSome(app.last_search_time))

\* the debounce check has searched for the one character of the query, the
\* overlay being open, and two results have come
SearchedFromOpenOverlay ==
    /\ pc = "input"
    /\ calls = <<Call("search_tracks", <<"a">>)>>
    /\ app.show_search
    /\ app.search_input = <<"a">>
    /\ app.search_results = <<"r1", "r2">>
    /\ app.last_search_time = None

==========================================================================
